---- MODULE Spec2Model ----
(***************************************************************************)
(* A model of the collection and aggregation core of x_scrapper:           *)
(*   api_scraper.py                 RateLimiter, TwitterAPIClient          *)
(*   scraper_main.py                DataPersistence                        *)
(*   crypto_scraper_orchestrator.py CryptoTwitterIntelligence              *)
(*   generic_scraper.py, scrape_crypto_fast.py, scrape_without_login.py    *)
(*                                  the mirror (nitter) failover loops     *)
(* Each component has its own specification (SpecRateLimiter, ...); the    *)
(* variables of the other components keep their initial values in it.      *)
(***************************************************************************)
EXTENDS Integers, Sequences, FiniteSets, TLC

VARIABLES
    \* ---- RateLimiter (api_scraper.py) ----
    clock,        \* time.time(), in whole seconds
    calls,        \* RateLimiter.calls: the deque of recorded timestamps
    returns,      \* history: the time at which each wait_if_needed returned
    slept,        \* history: how long each wait_if_needed slept (0: no sleep)
    \* ---- DataPersistence (scraper_main.py) ----
    tweets_table, \* the rows of the tweets table, as self.conn sees them
    firstScraped, \* history: per tweet_id, scraped_at of the first Tweet saved
    lastSaved,    \* history: per tweet_id, the latest Tweet whose row was inserted
    committed,    \* the rows that commits have made durable
    \* ---- CryptoTwitterIntelligence: scrape_account, search_keywords ----
    api_client,       \* whether self.api_client is set
    selenium_scraper, \* whether self.selenium_scraper is set
    runPc,            \* where the collection call in progress stands
    force_selenium,   \* scrape_account's argument
    tweets,           \* scrape_account's list
    kw,               \* search_keywords: index of the keyword being searched
    all_tweets,       \* search_keywords' list
    seen_ids,         \* search_keywords' set
    returned,         \* what the latest collection call returned
    runKind,          \* history: the latest collection call
    runFirst,         \* history: per id, the first Tweet the call made of a record
    runLast,          \* history: per id, the latest Tweet the call made of a record
    runSaveFailed,    \* history: whether a save_tweet of the call failed
    runStored,        \* history: per id, the latest Tweet of the call that save_tweet reported saved
    runRaised,        \* history: whether a collector call of the run raised
    askedApi,         \* history: the keywords for which the run asked the API
    delivered,        \* history: the records the API handed over for the target
    \* ---- TwitterAPIClient: search_recent_tweets, get_user_tweets ----
    client,       \* whether self.client is set
    method,       \* the method being executed
    apiPc,        \* where the method stands
    remaining,    \* the method's local `remaining`
    tweets_data,  \* the method's local list
    apiReturned,  \* what the latest call returned
    apiFailed,    \* history: whether the latest call caught an exception
    pagesDone,    \* history: pages the latest call fetched and processed
    requests,     \* history: requests sent to the API collaborator
    batches,      \* history: max_results of every page request of the call
    page_sizes,   \* history: the records every page request of the call got
    \* ---- the mirror runs: generic_scraper.main, scrape_crypto_fast.main,
    \*      scrape_without_login.scrape_nitter_alternative ----
    script,         \* which of the three runs
    has_keywords,   \* generic_scraper: whether keywords were given
    has_accounts,   \* generic_scraper: whether accounts were given
    mirrorPc,       \* "nav": about to navigate; "finished": the loop has ended
    mirror,         \* index in nitter_instances of the mirror in use
    phase,          \* "keywords" or "accounts"
    target,         \* index of the keyword or account fetched next
    results,        \* the list of the function in progress
    mirror_tweets,  \* all_tweets of main, results of scrape_nitter_alternative
    navCount,       \* history: navigations made, per mirror
    limitedFirst,   \* history: mirrors whose first navigation was rate limited
    everLimited,    \* history: mirrors that reported the rate limit
    extractedOn,    \* history: mirrors from which a record was extracted
    \* ---- the threads of CryptoTwitterIntelligence ----
    is_monitoring,      \* self.is_monitoring
    monitoring_thread,  \* whether self.monitoring_thread holds a thread
    at,                 \* the position of each thread
    acct,               \* the index of `for username in accounts`, per thread
    foreground,         \* the caller's thread is inside monitor_continuous
    lastStep,           \* history: what the last step of each thread was
    stopPending,        \* history: stop_monitoring was called on the worker
    fetchAfterStop,      \* history: the worker chose a target after the stop
    \* ---- SeleniumTwitterScraper.scrape_user_timeline ----
    scrollPc,    \* "loop": inside the while loop; "done": the call has returned
    timeline_tweets,    \* len(tweets), the number of unique tweets extracted
    no_new_content_count,    \* the counter of the same name
    last_height,    \* the document height after the last scroll
    stalledRun,    \* history: the iterations since the last new tweet or height growth
    scrollFailed,    \* history: the call ended in its except clause
    \* ---- DataPersistence.get_tweets and get_trending_analysis ----
    tweets_rows,    \* the rows of the tweets table that the queries read
    utcoffset,    \* the offset of local time from UTC, in hours
    queryPc,    \* "idle", or "answered" once a query has returned
    query,    \* the call: its name and its arguments
    answer,    \* what the call returned
    \* ---- SentimentAnalyzer.analyze ----
    input_text,    \* the text handed to analyze
    analysis,    \* what analyze returned for it, or [label |-> "none"] before the call
    \* ---- SeleniumTwitterScraper._parse_number ----
    number_text,    \* the engagement string, character by character
    parsed,    \* what _parse_number returned for it, or NotParsed before the call
    \* ---- the browser session of a mirror run ----
    session_script,    \* the script that runs
    driver,    \* "none", "open" once setup_driver returned, "quit" after driver.quit()
    sessionPc,    \* "start", "loop", "save", "finally", "quit", "returned" or "raised"
    visits,    \* the page fetches begun so far
    session_results,    \* the records collected so far
    pending,    \* the exception that the finally block will re-raise, or "none"
    \* ---- monitor_continuous: the timing of the cycles ----
    wall,    \* time.time(), in whole seconds
    interval,    \* monitor_continuous's argument
    cyclePc,    \* where the monitoring loop stands
    cycle_flag,    \* self.is_monitoring, as this loop reads it
    cycle_start,    \* the loop's local cycle_start
    wait_time,    \* the loop's local wait_time
    cycleStarts,    \* history: cycle_start of every cycle
    cycleTimes,    \* history: cycle_time of every cycle that reached the wait
    cycleSleeps,    \* history: what every such cycle passed to time.sleep, 0 if none
    \* ---- get_trending_analysis: the aggregation ----
    scan,    \* the rows that the SELECT of get_trending_analysis fetched, in scan order
    trendPc,    \* "idle", or "answered" once get_trending_analysis has returned
    trending,    \* what get_trending_analysis returned
    \* ---- the extraction of records from post elements ----
    extractor,    \* the function that reads the elements
    elements,    \* the rendered post elements of the page
    element_index,    \* the place in `elements` of the element read next
    emitted,    \* history: per element read, <<>> or the record made of it
    \* ---- the scroll loops with their records ----
    collector,    \* scrape_user_timeline or search_tweets
    collectPc,    \* "loop" inside the while loop, "done" after the return
    collected,    \* the list `tweets` of the call
    seenIds,    \* the set seen_ids of the call
    madeFrom,    \* history: per record of `collected`, the element it was made from
    stall,    \* no_new_content_count of scrape_user_timeline
    doc_height,    \* last_height of scrape_user_timeline
    scroll_attempts,    \* the counter of the same name of search_tweets
    moment,    \* the clock read by datetime.now()
    collectResult    \* history: what the call returned, <<>> before the return

rlVars == <<clock, calls, returns, slept>>
dbVars == <<tweets_table, firstScraped, lastSaved, committed>>

cfgVars == <<api_client, selenium_scraper>>
runVars == <<runPc, force_selenium, tweets, kw, all_tweets, seen_ids, returned,
             runKind, runFirst, runLast, runSaveFailed, runStored, runRaised, askedApi,
             delivered>>

apiVars == <<client, method, apiPc, remaining, tweets_data, apiReturned,
             apiFailed, pagesDone, requests, batches, page_sizes>>

mirrorVars == <<script, has_keywords, has_accounts, mirrorPc, mirror, phase,
                target, results, mirror_tweets, navCount, limitedFirst,
                everLimited, extractedOn>>

vars == <<clock, calls, returns, slept, tweets_table, firstScraped, lastSaved,
          committed, runStored, batches, page_sizes,
          api_client, selenium_scraper, runPc, force_selenium, tweets, kw,
          all_tweets, seen_ids, returned, runKind, runFirst, runLast,
          runSaveFailed, runRaised, askedApi, delivered, client, method, apiPc, remaining, tweets_data,
          apiReturned, apiFailed, pagesDone, requests,
          script, has_keywords, has_accounts, mirrorPc, mirror, phase,
          target, results, mirror_tweets, navCount, limitedFirst,
          everLimited, extractedOn,
          is_monitoring, monitoring_thread, at, acct, foreground, lastStep,
          stopPending, fetchAfterStop,
          scrollPc, timeline_tweets, no_new_content_count, last_height, stalledRun, scrollFailed,
          tweets_rows, utcoffset, queryPc, query, answer,
          input_text, analysis,
          number_text, parsed,
          session_script, driver, sessionPc, visits, session_results, pending,
          wall, interval, cyclePc, cycle_flag, cycle_start, wait_time, cycleStarts, cycleTimes, cycleSleeps,
          scan, trendPc, trending,
          extractor, elements, element_index, emitted,
          collector, collectPc, collected, seenIds, madeFrom, stall, doc_height, scroll_attempts, moment, collectResult>>

collectVars == <<collector, collectPc, collected, seenIds, madeFrom, stall, doc_height, scroll_attempts, moment, collectResult>>

extractVars == <<extractor, elements, element_index, emitted>>

trendVars == <<scan, trendPc, trending>>

cycleVars == <<wall, interval, cyclePc, cycle_flag, cycle_start, wait_time, cycleStarts, cycleTimes, cycleSleeps>>

sessionVars == <<session_script, driver, sessionPc, visits, session_results, pending>>

parseVars == <<number_text, parsed>>

analyzerVars == <<input_text, analysis>>

queryVars == <<tweets_rows, utcoffset, queryPc, query, answer>>

scrollVars == <<scrollPc, timeline_tweets, no_new_content_count, last_height, stalledRun, scrollFailed>>

monVars == <<is_monitoring, monitoring_thread, at, acct, foreground, lastStep,
             stopPending, fetchAfterStop>>

\* what the actions of one component leave alone
notRateLimiter == <<dbVars, cfgVars, runVars, apiVars, mirrorVars, monVars, scrollVars, queryVars, analyzerVars, parseVars, sessionVars, cycleVars, trendVars, extractVars, collectVars>>
notStore == <<calls, returns, slept, cfgVars, runVars, apiVars, mirrorVars, monVars, scrollVars, queryVars, analyzerVars, parseVars, sessionVars, cycleVars, trendVars, extractVars, collectVars>>
notOrchestrator == <<calls, returns, slept, cfgVars, apiVars, mirrorVars, monVars, scrollVars, queryVars, analyzerVars, parseVars, sessionVars, cycleVars, trendVars, extractVars, collectVars>>
notApi == <<dbVars, cfgVars, runVars, mirrorVars, monVars, scrollVars, queryVars, analyzerVars, parseVars, sessionVars, cycleVars, trendVars, extractVars, collectVars>>
notMirror == <<rlVars, dbVars, cfgVars, runVars, apiVars, monVars, scrollVars, queryVars, analyzerVars, parseVars, sessionVars, cycleVars, trendVars, extractVars, collectVars>>
notMonitor == <<rlVars, dbVars, cfgVars, runVars, apiVars, mirrorVars, scrollVars, queryVars, analyzerVars, parseVars, sessionVars, cycleVars, trendVars, extractVars, collectVars>>
notTimeline == <<rlVars, dbVars, cfgVars, runVars, apiVars, mirrorVars, monVars, queryVars, analyzerVars, parseVars, sessionVars, cycleVars, trendVars, extractVars, collectVars>>
notQuery == <<rlVars, dbVars, cfgVars, runVars, apiVars, mirrorVars, monVars, scrollVars, analyzerVars, parseVars, sessionVars, cycleVars, trendVars, extractVars, collectVars>>
notAnalyzer == <<rlVars, dbVars, cfgVars, runVars, apiVars, mirrorVars, monVars, scrollVars, queryVars, parseVars, sessionVars, cycleVars, trendVars, extractVars, collectVars>>
notParser == <<rlVars, dbVars, cfgVars, runVars, apiVars, mirrorVars, monVars, scrollVars, queryVars, analyzerVars, sessionVars, cycleVars, trendVars, extractVars, collectVars>>
notSession == <<rlVars, dbVars, cfgVars, runVars, apiVars, mirrorVars, monVars, scrollVars, queryVars, analyzerVars, parseVars, cycleVars, trendVars, extractVars, collectVars>>
notCycle == <<rlVars, dbVars, cfgVars, runVars, apiVars, mirrorVars, monVars, scrollVars, queryVars, analyzerVars, parseVars, sessionVars, trendVars, extractVars, collectVars>>
notTrend == <<rlVars, dbVars, cfgVars, runVars, apiVars, mirrorVars, cycleVars, sessionVars, parseVars, analyzerVars, queryVars, scrollVars, monVars, extractVars, collectVars>>
notExtract == <<rlVars, dbVars, cfgVars, runVars, apiVars, mirrorVars, trendVars, cycleVars, sessionVars, parseVars, analyzerVars, queryVars, scrollVars, monVars, collectVars>>
notCollect == <<rlVars, dbVars, cfgVars, runVars, apiVars, mirrorVars, extractVars, trendVars, cycleVars, sessionVars, parseVars, analyzerVars, queryVars, scrollVars, monVars>>

(***************************************************************************)
(* Bounds of the model.                                                    *)
(***************************************************************************)
\* RateLimiter(max_calls, time_window): 450 and 900 in TwitterAPIClient,
\* scaled down here so that the window fills within a few calls.
max_calls == 2
time_window == 3
\* how many wait_if_needed calls a behaviour holds
MaxAcquires == 5
\* the latest time at which the caller still issues a call
MaxClock == 6
\* time.sleep(t) suspends for at least t: the most it oversleeps
MaxOversleep == 1
\* the latest time at which a collection or a save still starts
MaxStamp == 2
\* scrape_account's max_tweets and search_keywords' max_per_keyword: the most
\* records one collector invocation hands over
max_tweets == 2
max_per_keyword == 1
\* len(keywords) of a search_keywords call
NumKeywords == 2
\* the most save_tweet calls that fail within one collection call
MaxFailures == 1
\* the most a caller asks of the API as max_results
MaxResults == 3
\* the most records of one API page: min(remaining, 100), scaled down
PageCap == 2
\* by how many records a page may exceed the max_results asked for
MaxExcess == 1
\* how many calls of the API client a behaviour holds
MaxApiCalls == 2
\* how many keywords, and how many accounts, a mirror run is given
NumTargets == 2
\* the most records one rendered page yields
MaxPerPage == 1
\* len(nitter_instances)
NumMirrors == 3
\* how many accounts monitor_continuous goes through in one cycle
NumAccounts == 2
\* max_no_content of scrape_user_timeline
max_no_content == 5
\* the most unique tweets one pass over the rendered elements adds
MaxNewPerScroll == 2
\* the greatest document height
MaxHeight == 5
\* the latest wall-clock hour of a stored timestamp; it is the current hour, UTC
MaxWall == 2
\* the longest window of get_trending_analysis, in hours
MaxHours == 2
\* the greatest limit of get_tweets
MaxLimit == 2
\* the limit of generate_intelligence_report's get_tweets call: the 10000 of
\* the source, scaled to the tables of the model
ReportLimit == 1
\* the most tokens of a text handed to analyze
MaxTokens == 4
\* the most characters of an engagement string
MaxChars == 6
MaxInterval == 2
MaxCycleTime == 3
MaxCycles == 3
\* the articles find_elements returns in one pass
MaxPage == 2
\* the values of hash()
HashSpace == 8
\* the latest reading of the clock the model tells apart
MaxNow == 4
\* max_scrolls of search_tweets
max_scrolls == 20
\* the post elements of one rendered page
MaxElements == 2
\* the rows of one scan of get_trending_analysis
MaxScan == 3
\* the slices of get_trending_analysis: [:20] of the hashtags and [:15] of the
\* accounts, scaled to the few tags and accounts of the model
TopHashtags == 2
TopAccounts == 2

(***************************************************************************)
(* Helpers on sequences.                                                   *)
(***************************************************************************)
RECURSIVE DropWhileOld(_, _)
\* while self.calls and self.calls[0] < limit: self.calls.popleft()
DropWhileOld(q, limit) ==
    IF q # <<>> /\ Head(q) < limit THEN DropWhileOld(Tail(q), limit) ELSE q

(***************************************************************************)
(* RateLimiter.wait_if_needed                                              *)
(***************************************************************************)
\* the deque after the pruning loop, for a call entered at time now
Pruned(q, now) == DropWhileOld(q, now - time_window)

\* whether the call entered at time now finds the window full
AtLimit(q, now) == Len(Pruned(q, now)) >= max_calls

\* variant of SleepTime: the second added to the wait is left out
SleepTimeNoMargin(q, now) == time_window - (now - Head(Pruned(q, now)))

\* sleep_time = self.time_window - (now - self.calls[0]) + 1
SleepTime(q, now) == time_window - (now - Head(Pruned(q, now))) + 1

\* the timestamp the call records: the `now` read on entry
RecordedTimestamp(now, after) == now

\* variant of CallsAfter: the deque is not cleared after the sleep
CallsKept(q, now, after) == Append(Pruned(q, now), RecordedTimestamp(now, after))

\* the deque a call leaves behind; after is the time the call returns
CallsAfter(q, now, after) ==
    IF AtLimit(q, now) /\ SleepTime(q, now) > 0
    THEN <<RecordedTimestamp(now, after)>>
    ELSE Append(Pruned(q, now), RecordedTimestamp(now, after))

\* the effect of one wait_if_needed call entered at the current time
wait_if_needed(extra) ==
    LET now == clock
        blocks == AtLimit(calls, now) /\ SleepTime(calls, now) > 0
        dur == IF blocks THEN SleepTime(calls, now) + extra ELSE 0
    IN /\ clock' = now + dur
       /\ calls' = CallsAfter(calls, now, now + dur)
       /\ returns' = Append(returns, now + dur)
       /\ slept' = Append(slept, dur)

\* a caller invokes the limiter
Acquire ==
    /\ Len(returns) < MaxAcquires
    /\ clock <= MaxClock
    /\ \E extra \in 0..MaxOversleep :
          /\ (extra > 0 => AtLimit(calls, clock))
          /\ wait_if_needed(extra)
    /\ UNCHANGED notRateLimiter

\* time passes between two calls
Tick ==
    /\ clock < MaxClock
    /\ clock' = clock + 1
    /\ UNCHANGED <<calls, returns, slept>>
    /\ UNCHANGED notRateLimiter

InitRateLimiter ==
    /\ clock = 0
    /\ calls = <<>>
    /\ returns = <<>>
    /\ slept = <<>>

NextRateLimiter == Acquire \/ Tick

(***************************************************************************)
(* Posts.  A raw record is what a collector hands over; a Tweet is the     *)
(* dataclass of scraper_main.py, of which the model keeps the fields the   *)
(* orchestrator fills from the record (tweet_id, text, likes), computes    *)
(* (sentiment_score, sentiment_label, scraped_at) or fixes (source).       *)
(* A text is the sequence of its whitespace-separated words.               *)
(***************************************************************************)
Ids == {"t1", "t2"}
\* what a post may read at the time it is collected: its text and its likes
Contents == {[text |-> <<"to", "the", "moon">>, likes |-> 7],
             [text |-> <<"dump", "it">>, likes |-> 0]}
Sources == {"api", "selenium"}
NoTweet == [tweet_id |-> "none"]
Never == 0 - 1

\* the records the collectors may hand over: "t1" is seen with either content,
\* "t2" with one
RawRecords ==
    {r \in {[id |-> i, text |-> c.text, likes |-> c.likes] : i \in Ids, c \in Contents} :
        r.id = "t2" => r.likes = 7}

(***************************************************************************)
(* SentimentAnalyzer.analyze.  A text is the sequence of its tokens, which *)
(* single spaces separate.  The polarity is a double: the model keeps the  *)
(* exact fraction num/den that the double stands for and its side: 1 when  *)
(* the fraction is 3/20 and the double is greater than the double 0.15, -1 *)
(* when the fraction is -3/20 and the double is less than the double       *)
(* -0.15, else 0.                                                          *)
(***************************************************************************)
crypto_positive ==
    {"bullish", "moon", "rocket", "pump", "gains", "breakthrough", "adoption",
     "partnership", "launch", "approved", "soaring", "surge", "rally",
     "breakout", "accumulate", "hodl", "gem", "alpha", "long", "buy",
     "accumulation", "institutional", "etf", "utility"}
crypto_negative ==
    {"bearish", "dump", "crash", "scam", "rug", "rugpull", "fud", "decline",
     "plunge", "reject", "rejected", "liquidation", "short", "hack", "exploit",
     "vulnerable", "warning", "caution", "ponzi", "bubble", "overvalued",
     "sell", "exit", "risk", "fraud"}

\* market_indicators, each phrase as the sequence of its words
market_indicators ==
    [positive |-> {<<"ath">>, <<"breakout">>, <<"golden", "cross">>, <<"support">>,
                   <<"buy", "signal">>},
     negative |-> {<<"death", "cross">>, <<"resistance">>, <<"sell", "signal">>,
                   <<"breakdown">>}]

\* the string literals that analyze counts as bullish and as bearish emoji;
\* "<rocket>" and "<chart-down>" stand for the first literal of each line
BullishLiterals == {"<rocket>", "<chart-up>", "<gem>", "<bull>"}
BearishLiterals == {"<chart-down>", "<bear>", "<skull>"}

\* the tokens of the model's texts
Vocabulary == {"moon", "crash", "golden", "cross", "death", "<rocket>", "<chart-down>"}

\* set(text_lower.split())
Words(text) == {text[i] : i \in 1..Len(text)}

\* word is a substring of token; among the words of market_indicators and the
\* tokens of the model there is one proper case, "ath" in "death"
Contains(token, word) == token = word \/ (token = "death" /\ word = "ath")

\* phrase in text_lower: no token of the model properly ends with the first
\* word or starts with the last word of a phrase of several words
Occurs(phrase, text) ==
    \E i \in 1..Len(text) :
        /\ i + Len(phrase) - 1 <= Len(text)
        /\ IF Len(phrase) = 1
           THEN Contains(text[i], phrase[1])
           ELSE \A j \in 1..Len(phrase) : text[i + j - 1] = phrase[j]

\* sum(1 for phrase in ... if phrase in text_lower)
positive_patterns(text) ==
    Cardinality({phrase \in market_indicators.positive : Occurs(phrase, text)})
negative_patterns(text) ==
    Cardinality({phrase \in market_indicators.negative : Occurs(phrase, text)})

\* text.count(...) + ...: the occurrences of the literals
bullish_emojis(text) == Cardinality({i \in 1..Len(text) : text[i] \in BullishLiterals})
bearish_emojis(text) == Cardinality({i \in 1..Len(text) : text[i] \in BearishLiterals})

positive_signals(text) ==
    Cardinality(Words(text) \cap crypto_positive) + positive_patterns(text)
negative_signals(text) ==
    Cardinality(Words(text) \cap crypto_negative) + negative_patterns(text)
total_signals(text) == positive_signals(text) + negative_signals(text)

\* <<d, t, e>>: d/t + e/20 = 3/20 and the double of d / t + e * 0.05 is greater
\* than the double 0.15 (0.0 + 3 * 0.05 is 0.15000000000000002); the double of
\* 2 / 8 + (-2) * 0.05 is 0.15
AboveThreshold == {<<0, 0, 3>>, <<0, 2, 3>>, <<0, 4, 3>>, <<1, 5, 0 - 1>>}

\* the side of the double of d / t + e * 0.05
Side(d, t, e) ==
    IF <<d, t, e>> \in AboveThreshold THEN 1
    ELSE IF <<0 - d, t, 0 - e>> \in AboveThreshold THEN 0 - 1
    ELSE 0

\* polarity before the clamp: the signals, then 0.05 per emoji
RawPolarity(text) ==
    LET pos == positive_signals(text)
        neg == negative_signals(text)
        t == pos + neg
        d == pos - neg
        e == bullish_emojis(text) - bearish_emojis(text)
    IN IF t = 0
       THEN [num |-> e, den |-> 20, side |-> Side(0, 0, e)]
       ELSE [num |-> 20 * d + t * e, den |-> 20 * t, side |-> Side(d, t, e)]

\* variant of Clamp: the polarity is not clamped
NoClamp(p) == p

\* polarity = max(-1.0, min(1.0, polarity))
Clamp(p) ==
    IF p.num > p.den THEN [num |-> 1, den |-> 1, side |-> 0]
    ELSE IF p.num < 0 - p.den THEN [num |-> 0 - 1, den |-> 1, side |-> 0]
    ELSE p

\* variant of Label: the thresholds themselves count as positive and negative
LabelAtLeast(p) ==
    IF 20 * p.num > 3 * p.den \/ (20 * p.num = 3 * p.den /\ p.side >= 0) THEN "positive"
    ELSE IF 20 * p.num < 0 - 3 * p.den \/ (20 * p.num = 0 - 3 * p.den /\ p.side <= 0)
         THEN "negative"
    ELSE "neutral"

\* polarity > 0.15: positive; polarity < -0.15: negative; else neutral
Label(p) ==
    IF 20 * p.num > 3 * p.den \/ (20 * p.num = 3 * p.den /\ p.side > 0) THEN "positive"
    ELSE IF 20 * p.num < 0 - 3 * p.den \/ (20 * p.num = 0 - 3 * p.den /\ p.side < 0)
         THEN "negative"
    ELSE "neutral"

analyze(text) ==
    LET polarity == Clamp(RawPolarity(text))
    IN [polarity |-> polarity, label |-> Label(polarity),
        positive_signals |-> positive_signals(text),
        negative_signals |-> negative_signals(text)]

(***************************************************************************)
(* DataPersistence: the tweets table and save_tweet.                       *)
(***************************************************************************)
\* datetime.isoformat(): the value as it is stored in a TEXT column
isoformat(t) == [iso |-> t]

\* the tuple save_tweet binds to the INSERT statement
RowOf(tweet) ==
    [tweet_id |-> tweet.tweet_id,
     text |-> tweet.text,
     likes |-> tweet.likes,
     sentiment_score |-> tweet.sentiment_score,
     sentiment_label |-> tweet.sentiment_label,
     scraped_at |-> isoformat(tweet.scraped_at),
     source |-> tweet.source]

RowsOf(table, id) == {r \in table : r.tweet_id = id}

\* variants of InsertOrReplace: a plain INSERT into a table without the key,
\* INSERT OR IGNORE, and a replace that keeps the old row's scraped_at
InsertPlain(table, row) == table \cup {row}
InsertOrIgnore(table, row) ==
    IF RowsOf(table, row.tweet_id) # {} THEN table ELSE table \cup {row}
ReplaceKeepingScrapedAt(table, row) ==
    {r \in table : r.tweet_id # row.tweet_id} \cup
    (IF RowsOf(table, row.tweet_id) = {}
     THEN {row}
     ELSE {[row EXCEPT !.scraped_at = r.scraped_at] : r \in RowsOf(table, row.tweet_id)})

\* INSERT OR REPLACE INTO tweets: tweet_id is the PRIMARY KEY, so the row
\* holding the key, if any, is deleted before the new row is inserted
InsertOrReplace(table, row) ==
    {r \in table : r.tweet_id # row.tweet_id} \cup {row}

\* how save_tweet(tweet) may end: cursor.execute and self.conn.commit succeed;
\* cursor.execute raises; cursor.execute succeeds and self.conn.commit raises
SaveOutcomes == {"saved", "execute_raised", "commit_raised"}

\* save_tweet returns True
ReturnsTrue(outcome) == outcome = "saved"

\* the INSERT OR REPLACE statement was executed
Executed(outcome) == outcome # "execute_raised"

\* the table after save_tweet(tweet), as self.conn sees it: the except branch
\* only logs and returns False, so a row whose commit raised stays in the
\* connection's open transaction
TableAfterSave(table, tweet, outcome) ==
    IF Executed(outcome) THEN InsertOrReplace(table, RowOf(tweet)) ELSE table

\* the durable rows after save_tweet(tweet): self.conn.commit() commits the
\* connection's whole transaction
CommittedAfterSave(durable, table, tweet, outcome) ==
    IF ReturnsTrue(outcome) THEN InsertOrReplace(table, RowOf(tweet)) ELSE durable

\* the histories after save_tweet(tweet)
FirstAfterSave(first, tweet, outcome) ==
    IF Executed(outcome) /\ first[tweet.tweet_id] = Never
    THEN [first EXCEPT ![tweet.tweet_id] = tweet.scraped_at] ELSE first
LastAfterSave(last, tweet, outcome) ==
    IF Executed(outcome) THEN [last EXCEPT ![tweet.tweet_id] = tweet] ELSE last

\* the Tweets a caller may hand to save_tweet
Tweets ==
    {[tweet_id |-> r.id, text |-> r.text, likes |-> r.likes,
      sentiment_score |-> analyze(r.text).polarity,
      sentiment_label |-> analyze(r.text).label,
      scraped_at |-> t, source |-> s] :
        r \in RawRecords, t \in 0..MaxStamp, s \in Sources}

\* DataPersistence.save_tweet(tweet), called directly
save_tweet ==
    \E tweet \in Tweets, outcome \in SaveOutcomes :
        /\ tweet.scraped_at = clock
        /\ tweets_table' = TableAfterSave(tweets_table, tweet, outcome)
        /\ committed' = CommittedAfterSave(committed, tweets_table, tweet, outcome)
        /\ firstScraped' = FirstAfterSave(firstScraped, tweet, outcome)
        /\ lastSaved' = LastAfterSave(lastSaved, tweet, outcome)
        /\ UNCHANGED clock
        /\ UNCHANGED notStore

\* time passes between two saves
StoreTick ==
    /\ clock < MaxStamp
    /\ clock' = clock + 1
    /\ UNCHANGED dbVars
    /\ UNCHANGED notStore

InitDb ==
    /\ tweets_table = {}
    /\ committed = {}
    /\ firstScraped = [i \in Ids |-> Never]
    /\ lastSaved = [i \in Ids |-> NoTweet]

NextStore == save_tweet \/ StoreTick

(***************************************************************************)
(* TwitterAPIClient.search_recent_tweets and get_user_tweets.  One request *)
(* to the API collaborator is one step.  The collaborator may raise, hand  *)
(* over no data, or hand over up to batch_size records, with or without a  *)
(* next_token; making the dicts of a page's tweets may raise as well.      *)
(***************************************************************************)
Methods == {"search_recent_tweets", "get_user_tweets"}

\* variant of batch_size: the whole of remaining is asked for in one request
WholeRemaining(rem) == rem

\* batch_size = min(remaining, 100)
batch_size(rem) == IF rem < PageCap THEN rem ELSE PageCap

\* the records of one page: the collaborator is asked for batch_size records
\* and nothing in the method holds it to that.  The method copies the
\* records without reading them, and of a page the number of its records is
\* what matters: the pages of the model repeat one record
Pages(rem) ==
    LET r == CHOOSE raw \in RawRecords : TRUE
    IN {[i \in 1..n |-> r] : n \in 1..(batch_size(rem) + MaxExcess)}

\* what the except clause returns: `return []`
ReturnedOnError(data) == <<>>

\* the method returns result
ApiReturn(result) ==
    /\ apiPc' = "returned"
    /\ apiReturned' = result

\* the entry of either method: no client, or the limiter and the try block
api_call ==
    /\ apiPc \in {"idle", "returned"}
    /\ Len(returns) < MaxApiCalls
    /\ \E m \in Methods, max_results \in 1..MaxResults :
          /\ method' = m
          /\ remaining' = max_results
    /\ tweets_data' = <<>>
    /\ apiFailed' = FALSE
    /\ pagesDone' = 0
    /\ batches' = <<>>
    /\ page_sizes' = <<>>
    /\ IF client
       THEN /\ \E extra \in 0..MaxOversleep :
                  /\ (extra > 0 => AtLimit(calls, clock))
                  /\ wait_if_needed(extra)
            /\ apiPc' = IF method' = "get_user_tweets" THEN "lookup" ELSE "page"
            /\ UNCHANGED apiReturned
       ELSE /\ ApiReturn(<<>>)
            /\ UNCHANGED rlVars
    /\ UNCHANGED <<client, requests>>
    /\ UNCHANGED notApi

\* get_user_tweets: self.client.get_user(username=username)
api_lookup ==
    /\ apiPc = "lookup"
    /\ requests' = requests + 1
    /\ \/ /\ apiPc' = "page"
          /\ UNCHANGED <<apiReturned, apiFailed>>
       \/ /\ ApiReturn(<<>>)
          /\ UNCHANGED apiFailed
       \/ /\ ApiReturn(ReturnedOnError(tweets_data))
          /\ apiFailed' = TRUE
    /\ UNCHANGED <<client, method, remaining, tweets_data, pagesDone, batches,
                   page_sizes>>
    /\ UNCHANGED rlVars
    /\ UNCHANGED notApi

\* one pass of `while remaining > 0`: the request of a page and its processing
api_page ==
    /\ apiPc = "page"
    /\ remaining > 0
    /\ requests' = requests + 1
    /\ batches' = Append(batches, batch_size(remaining))
    /\ \/ \E page \in Pages(remaining), more \in BOOLEAN :
             /\ tweets_data' = tweets_data \o page
             /\ page_sizes' = Append(page_sizes, Len(page))
             /\ remaining' = remaining - Len(page)
             /\ pagesDone' = pagesDone + 1
             /\ IF more
                THEN /\ apiPc' = "page"
                     /\ clock' = IF method = "search_recent_tweets"
                                 THEN clock + 1 ELSE clock
                     /\ UNCHANGED apiReturned
                ELSE /\ ApiReturn(tweets_data')
                     /\ UNCHANGED clock
             /\ UNCHANGED apiFailed
       \/ /\ ApiReturn(tweets_data)
          /\ page_sizes' = Append(page_sizes, 0)
          /\ UNCHANGED <<tweets_data, remaining, pagesDone, apiFailed, clock>>
       \/ /\ ApiReturn(ReturnedOnError(tweets_data))
          /\ apiFailed' = TRUE
          /\ page_sizes' = Append(page_sizes, 0)
          /\ UNCHANGED <<tweets_data, remaining, pagesDone, clock>>
    /\ UNCHANGED <<client, method, calls, returns, slept>>
    /\ UNCHANGED notApi

\* `while remaining > 0` ends: return tweets_data
api_done ==
    /\ apiPc = "page"
    /\ remaining <= 0
    /\ ApiReturn(tweets_data)
    /\ UNCHANGED <<client, method, remaining, tweets_data, apiFailed, pagesDone,
                   requests, batches, page_sizes>>
    /\ UNCHANGED rlVars
    /\ UNCHANGED notApi

InitApi ==
    /\ client \in BOOLEAN
    /\ method = "search_recent_tweets"
    /\ apiPc = "idle"
    /\ remaining = 0
    /\ tweets_data = <<>>
    /\ apiReturned = <<>>
    /\ apiFailed = FALSE
    /\ pagesDone = 0
    /\ requests = 0
    /\ batches = <<>>
    /\ page_sizes = <<>>

NextApi == api_call \/ api_lookup \/ api_page \/ api_done

(***************************************************************************)
(* CryptoTwitterIntelligence: scrape_account and search_keywords.          *)
(* One collector invocation is one step; the clock advances by one with    *)
(* each, so the Tweets of two invocations differ in scraped_at.  A         *)
(* behaviour holds one collection call, made on a store that may hold the  *)
(* rows of earlier collections (PriorStore).                               *)
(***************************************************************************)
\* what one collector invocation may hand over
Batches(most) == UNION {[1..n -> RawRecords] : n \in 0..most}

\* how the save_tweet calls of one loop may end, when those that fail end in
\* one of `outcomes`: at most MaxFailures of them fail, all the same way
FailuresOf(n, outcomes) ==
    {[i \in 1..n |-> IF i \in failing THEN outcome ELSE "saved"] :
        failing \in {f \in SUBSET (1..n) : Cardinality(f) <= MaxFailures},
        outcome \in outcomes}

\* the save loop of scrape_account: the statement or the commit fails
FailureSets(n) == FailuresOf(n, SaveOutcomes \ {"saved"})

\* the save_tweet calls of search_keywords: the model follows the failures
\* of the statement
StatementFailures(n) == FailuresOf(n, {"execute_raised"})

\* _process_api_data and _process_selenium_data: one Tweet per record, scored
\* by the analyzer and stamped with datetime.now()
MakeTweet(data, now, src) ==
    LET sentiment == analyze(data.text)
    IN [tweet_id |-> data.id, text |-> data.text, likes |-> data.likes,
        sentiment_score |-> sentiment.polarity,
        sentiment_label |-> sentiment.label,
        scraped_at |-> now, source |-> src]
process_api_data(api_data, now) ==
    [i \in 1..Len(api_data) |-> MakeTweet(api_data[i], now, "api")]
process_selenium_data(selenium_data, now) ==
    [i \in 1..Len(selenium_data) |-> MakeTweet(selenium_data[i], now, "selenium")]

\* the state a loop over Tweets threads through
LoopState ==
    [all |-> all_tweets, seen |-> seen_ids, table |-> tweets_table,
     first |-> firstScraped, last |-> lastSaved,
     rfirst |-> runFirst, rlast |-> runLast, failed |-> runSaveFailed,
     durable |-> committed, stored |-> runStored]

\* the histories of the call, after it made tweet of a record
Noted(st, tweet) ==
    [st EXCEPT !.rfirst = IF st.rfirst[tweet.tweet_id] = NoTweet
                          THEN [st.rfirst EXCEPT ![tweet.tweet_id] = tweet]
                          ELSE st.rfirst,
               !.rlast = [st.rlast EXCEPT ![tweet.tweet_id] = tweet]]

\* self.db.save_tweet(tweet) within a loop
Saved(st, tweet, outcome) ==
    [st EXCEPT !.table = TableAfterSave(st.table, tweet, outcome),
               !.durable = CommittedAfterSave(st.durable, st.table, tweet, outcome),
               !.first = FirstAfterSave(st.first, tweet, outcome),
               !.last = LastAfterSave(st.last, tweet, outcome),
               !.failed = st.failed \/ ~ReturnsTrue(outcome),
               !.stored = IF ReturnsTrue(outcome)
                          THEN [st.stored EXCEPT ![tweet.tweet_id] = tweet]
                          ELSE st.stored]

\* variant of IsNew: the test against seen_ids is left out
IsNewAlways(seen, tweet) == TRUE

\* search_keywords: if tweet.tweet_id not in seen_ids
IsNew(seen, tweet) == tweet.tweet_id \notin seen

\* search_keywords: the body of `for tweet in tweets`
KeepIfNew(st, tweet, outcome) ==
    IF IsNew(st.seen, tweet)
    THEN Saved([st EXCEPT !.seen = st.seen \cup {tweet.tweet_id},
                          !.all = Append(st.all, tweet)], tweet, outcome)
    ELSE st

RECURSIVE DedupLoop(_, _, _, _)
\* search_keywords: `for tweet in tweets`, from the i-th Tweet on; fails holds
\* how the save_tweet of each position ends
DedupLoop(st, ts, i, fails) ==
    IF i > Len(ts) THEN st
    ELSE DedupLoop(KeepIfNew(Noted(st, ts[i]), ts[i], fails[i]), ts, i + 1, fails)

RECURSIVE SaveLoop(_, _, _, _)
\* scrape_account: `for tweet in tweets: self.db.save_tweet(tweet)`
SaveLoop(st, ts, i, fails) ==
    IF i > Len(ts) THEN st
    ELSE SaveLoop(Saved(Noted(st, ts[i]), ts[i], fails[i]), ts, i + 1, fails)

\* the variables a loop writes
StoreLoop(st) ==
    /\ tweets_table' = st.table
    /\ firstScraped' = st.first
    /\ lastSaved' = st.last
    /\ runFirst' = st.rfirst
    /\ runLast' = st.rlast
    /\ runSaveFailed' = st.failed
    /\ committed' = st.durable
    /\ runStored' = st.stored

NoRunHistory == [i \in Ids |-> NoTweet]

\* ---- scrape_account(username, max_tweets, force_selenium) ----
scrape_account_begin ==
    /\ runPc = "idle"
    /\ runKind = "none"
    /\ \E force \in BOOLEAN : force_selenium' = force
    /\ runPc' = "scrape_api"
    /\ tweets' = <<>>
    /\ runKind' = "scrape_account"
    /\ runFirst' = NoRunHistory
    /\ runLast' = NoRunHistory
    /\ runSaveFailed' = FALSE
    /\ runStored' = NoRunHistory
    /\ runRaised' = FALSE
    /\ askedApi' = {}
    /\ delivered' = 0
    /\ UNCHANGED <<clock, dbVars, kw, all_tweets, seen_ids, returned>>
    /\ UNCHANGED notOrchestrator

\* whether scrape_account asks the API
UsesApi == api_client /\ ~force_selenium

\* the API part: get_user_tweets, then _process_api_data, which may raise
scrape_account_api ==
    /\ runPc = "scrape_api"
    /\ \/ /\ UsesApi
          /\ \E api_data \in Batches(max_tweets) :
                /\ tweets' = tweets \o process_api_data(api_data, clock)
                /\ delivered' = Len(api_data)
          /\ clock' = clock + 1
          /\ UNCHANGED runRaised
       \/ /\ UsesApi
          /\ tweets' = tweets
          /\ clock' = clock + 1
          /\ runRaised' = TRUE
          /\ delivered' = 0
       \/ /\ ~UsesApi
          /\ UNCHANGED <<tweets, clock, runRaised, delivered>>
    /\ runPc' = "scrape_selenium"
    /\ UNCHANGED <<dbVars, force_selenium, kw, all_tweets, seen_ids, returned,
                   runKind, runFirst, runLast, runSaveFailed, runStored, askedApi>>
    /\ UNCHANGED notOrchestrator

\* whether scrape_account asks the browser after the API part
UsesSelenium(ts) == (Len(ts) < max_tweets \/ force_selenium) /\ selenium_scraper

\* the save loop and the return that end scrape_account
scrape_account_save(ts) ==
    /\ \E fails \in FailureSets(Len(ts)) :
          StoreLoop(SaveLoop(LoopState, ts, 1, fails))
    /\ tweets' = ts
    /\ returned' = ts
    /\ runPc' = "idle"

\* the browser part, the save loop and the return
scrape_account_selenium ==
    /\ runPc = "scrape_selenium"
    /\ \/ /\ UsesSelenium(tweets)
          /\ \E selenium_data \in Batches(max_tweets) :
                scrape_account_save(tweets \o process_selenium_data(selenium_data, clock))
          /\ clock' = clock + 1
          /\ UNCHANGED runRaised
       \/ /\ UsesSelenium(tweets)
          /\ scrape_account_save(tweets)
          /\ clock' = clock + 1
          /\ runRaised' = TRUE
       \/ /\ ~UsesSelenium(tweets)
          /\ scrape_account_save(tweets)
          /\ UNCHANGED <<clock, runRaised>>
    /\ UNCHANGED <<force_selenium, kw, all_tweets, seen_ids, runKind, askedApi, delivered>>
    /\ UNCHANGED notOrchestrator

\* ---- search_keywords(keywords, max_per_keyword) ----
search_keywords_begin ==
    /\ runPc = "idle"
    /\ runKind = "none"
    /\ runPc' = "search_api"
    /\ kw' = 1
    /\ all_tweets' = <<>>
    /\ seen_ids' = {}
    /\ runKind' = "search_keywords"
    /\ runFirst' = NoRunHistory
    /\ runLast' = NoRunHistory
    /\ runSaveFailed' = FALSE
    /\ runStored' = NoRunHistory
    /\ runRaised' = FALSE
    /\ askedApi' = {}
    /\ delivered' = 0
    /\ UNCHANGED <<clock, dbVars, force_selenium, tweets, returned>>
    /\ UNCHANGED notOrchestrator

\* the loop over one collector's Tweets
search_keywords_loop(ts) ==
    \E fails \in StatementFailures(Len(ts)) :
        LET st == DedupLoop(LoopState, ts, 1, fails)
        IN /\ StoreLoop(st)
           /\ all_tweets' = st.all
           /\ seen_ids' = st.seen

\* variant of AfterApiError: the exception leaves search_keywords
ApiErrorPropagates == "raised"

\* where search_keywords goes on after `except Exception as e` of the API part
AfterApiError == "search_selenium"

\* the API part of one keyword
search_keywords_api ==
    /\ runPc = "search_api"
    /\ \/ /\ api_client
          /\ \E api_data \in Batches(max_per_keyword) :
                /\ search_keywords_loop(process_api_data(api_data, clock))
                /\ delivered' = Len(api_data)
          /\ clock' = clock + 1
          /\ askedApi' = askedApi \cup {kw}
          /\ runPc' = "search_selenium"
          /\ UNCHANGED runRaised
       \/ /\ api_client
          /\ UNCHANGED <<dbVars, all_tweets, seen_ids, runFirst, runLast, runSaveFailed, runStored>>
          /\ clock' = clock + 1
          /\ askedApi' = askedApi \cup {kw}
          /\ runPc' = AfterApiError
          /\ runRaised' = TRUE
          /\ delivered' = 0
       \/ /\ ~api_client
          /\ UNCHANGED <<clock, dbVars, all_tweets, seen_ids, runFirst, runLast,
                         runSaveFailed, runStored, runRaised, askedApi>>
          /\ delivered' = 0
          /\ runPc' = "search_selenium"
    /\ UNCHANGED <<force_selenium, tweets, kw, returned, runKind>>
    /\ UNCHANGED notOrchestrator

\* whether search_keywords asks the browser for the keyword
SearchUsesSelenium == selenium_scraper /\ Len(all_tweets) < max_per_keyword * NumKeywords

\* the browser part of one keyword, then the next keyword or the return
search_keywords_selenium ==
    /\ runPc = "search_selenium"
    /\ \/ /\ SearchUsesSelenium
          /\ \E selenium_data \in Batches(max_per_keyword) :
                search_keywords_loop(process_selenium_data(selenium_data, clock))
          /\ clock' = clock + 1
          /\ UNCHANGED runRaised
       \/ /\ SearchUsesSelenium
          /\ UNCHANGED <<dbVars, all_tweets, seen_ids, runFirst, runLast, runSaveFailed, runStored>>
          /\ clock' = clock + 1
          /\ runRaised' = TRUE
       \/ /\ ~SearchUsesSelenium
          /\ UNCHANGED <<clock, dbVars, all_tweets, seen_ids, runFirst, runLast,
                         runSaveFailed, runStored, runRaised>>
    /\ IF kw < NumKeywords
       THEN /\ kw' = kw + 1
            /\ runPc' = "search_api"
            /\ UNCHANGED returned
       ELSE /\ kw' = kw
            /\ runPc' = "idle"
            /\ returned' = all_tweets'
    /\ UNCHANGED <<force_selenium, tweets, runKind, askedApi, delivered>>
    /\ UNCHANGED notOrchestrator

InitConfig ==
    /\ api_client \in BOOLEAN
    /\ selenium_scraper \in BOOLEAN

InitRun ==
    /\ runPc = "idle"
    /\ force_selenium = FALSE
    /\ tweets = <<>>
    /\ kw = 1
    /\ all_tweets = <<>>
    /\ seen_ids = {}
    /\ returned = <<>>
    /\ runKind = "none"
    /\ runFirst = NoRunHistory
    /\ runLast = NoRunHistory
    /\ runSaveFailed = FALSE
    /\ runStored = NoRunHistory
    /\ runRaised = FALSE
    /\ askedApi = {}
    /\ delivered = 0

NextOrchestrator ==
    \/ scrape_account_begin
    \/ scrape_account_api
    \/ scrape_account_selenium
    \/ search_keywords_begin
    \/ search_keywords_api
    \/ search_keywords_selenium

(***************************************************************************)
(* The mirror runs.  One navigation (driver.get of one target on one       *)
(* mirror, with what is extracted from the page) is one step.  A page      *)
(* shows the rate-limit banner or yields some records, none when the page  *)
(* is empty, every element fails or the navigation raises.                 *)
(***************************************************************************)
Scripts == {"generic_scraper", "scrape_crypto_fast", "scrape_without_login"}
Mirrors == 1..NumMirrors

\* n records extracted from the page of target t, in phase ph, on mirror m
PageRecords(m, ph, t, n) ==
    [i \in 1..n |-> [mirror |-> m, phase |-> ph, target |-> t]]

\* the phase with which the body of `for nitter_url in nitter_instances` starts
FirstPhase == IF script = "generic_scraper" /\ has_keywords THEN "keywords" ELSE "accounts"

\* variant of NextMirror: the loop starts over at the head of the list
RestartAtFirstMirror(m) == 1

\* the mirror the loop turns to after mirror m
NextMirror(m) == m + 1

\* the for loop over nitter_instances goes on: the next mirror, or the end
AdvanceMirror(batch) ==
    /\ mirror_tweets' = batch
    /\ results' = <<>>
    /\ target' = 1
    /\ phase' = FirstPhase
    /\ IF mirror < NumMirrors
       THEN /\ mirror' = NextMirror(mirror)
            /\ mirrorPc' = "nav"
       ELSE /\ mirror' = mirror
            /\ mirrorPc' = "finished"

\* `break` out of the loop over nitter_instances
FinishRun(batch) ==
    /\ mirror_tweets' = batch
    /\ results' = <<>>
    /\ mirrorPc' = "finished"
    /\ UNCHANGED <<mirror, phase, target>>

\* variant of EndOfMirror: the loop goes on to the next mirror in any case
EndOfMirrorNoBreak(batch, instance_works) == AdvanceMirror(batch)

\* the end of the loop body: `if instance_works and all_tweets: break`
\* (generic_scraper, scrape_crypto_fast), `if results: break`
\* (scrape_without_login)
EndOfMirror(batch, instance_works) ==
    IF (instance_works \/ script = "scrape_without_login") /\ batch # <<>>
    THEN FinishRun(batch)
    ELSE AdvanceMirror(batch)

\* what the run holds when a page shows the banner: search_keywords_nitter and
\* scrape_accounts return None, and their list is lost; scrape_crypto_fast and
\* scrape_without_login had the earlier pages' records in the batch already
BatchWhenLimited == mirror_tweets

\* the histories of a navigation
NoteNav(limited, n) ==
    /\ navCount' = [navCount EXCEPT ![mirror] = @ + 1]
    /\ limitedFirst' = IF limited /\ navCount[mirror] = 0
                       THEN limitedFirst \cup {mirror} ELSE limitedFirst
    /\ everLimited' = IF limited THEN everLimited \cup {mirror} ELSE everLimited
    /\ extractedOn' = IF n > 0 THEN extractedOn \cup {mirror} ELSE extractedOn

\* the page shows the rate-limit banner
nav_rate_limited ==
    /\ mirrorPc = "nav"
    /\ NoteNav(TRUE, 0)
    /\ EndOfMirror(BatchWhenLimited, FALSE)
    /\ UNCHANGED <<script, has_keywords, has_accounts>>
    /\ UNCHANGED notMirror

\* generic_scraper: a page of search_keywords_nitter or scrape_accounts
nav_generic ==
    /\ mirrorPc = "nav"
    /\ script = "generic_scraper"
    /\ \E n \in 0..MaxPerPage :
          LET got == results \o PageRecords(mirror, phase, target, n)
          IN /\ NoteNav(FALSE, n)
             /\ IF target < NumTargets
                THEN /\ target' = target + 1
                     /\ results' = got
                     /\ UNCHANGED <<mirrorPc, mirror, phase, mirror_tweets>>
                ELSE IF phase = "keywords" /\ has_accounts
                THEN /\ phase' = "accounts"
                     /\ target' = 1
                     /\ results' = <<>>
                     /\ mirror_tweets' = mirror_tweets \o got
                     /\ UNCHANGED <<mirrorPc, mirror>>
                ELSE EndOfMirror(mirror_tweets \o got, TRUE)
    /\ UNCHANGED <<script, has_keywords, has_accounts>>
    /\ UNCHANGED notMirror

\* scrape_crypto_fast and scrape_without_login: the page of one account
nav_account ==
    /\ mirrorPc = "nav"
    /\ script # "generic_scraper"
    /\ \E n \in 0..MaxPerPage :
          LET batch == mirror_tweets \o PageRecords(mirror, phase, target, n)
          IN /\ NoteNav(FALSE, n)
             /\ IF target < NumTargets
                THEN /\ target' = target + 1
                     /\ mirror_tweets' = batch
                     /\ UNCHANGED <<mirrorPc, mirror, phase, results>>
                ELSE EndOfMirror(batch, TRUE)
    /\ UNCHANGED <<script, has_keywords, has_accounts>>
    /\ UNCHANGED notMirror

\* what a finished run tells its caller: main saves and shows the batch and
\* prints the total, or prints that no tweets were collected
Report(batch) ==
    IF batch # <<>>
    THEN [message |-> "SCRAPING COMPLETE", total |-> Len(batch)]
    ELSE [message |-> "No tweets collected", total |-> 0]

InitMirror ==
    /\ script \in Scripts
    /\ has_keywords \in BOOLEAN
    /\ has_accounts \in BOOLEAN
    /\ script = "generic_scraper" => has_keywords \/ has_accounts
    /\ script # "generic_scraper" => ~has_keywords /\ has_accounts
    /\ mirrorPc = "nav"
    /\ mirror = 1
    /\ phase = FirstPhase
    /\ target = 1
    /\ results = <<>>
    /\ mirror_tweets = <<>>
    /\ navCount = [m \in Mirrors |-> 0]
    /\ limitedFirst = {}
    /\ everLimited = {}
    /\ extractedOn = {}

\* no mirror run under way
MirrorIdle ==
    /\ script = "generic_scraper"
    /\ has_keywords = FALSE
    /\ has_accounts = FALSE
    /\ mirrorPc = "finished"
    /\ mirror = 1
    /\ phase = "accounts"
    /\ target = 1
    /\ results = <<>>
    /\ mirror_tweets = <<>>
    /\ navCount = [m \in Mirrors |-> 0]
    /\ limitedFirst = {}
    /\ everLimited = {}
    /\ extractedOn = {}

NextMirrorRun == nav_rate_limited \/ nav_generic \/ nav_account

(***************************************************************************)
(* The threads of one CryptoTwitterIntelligence: the caller's thread and   *)
(* the thread of start_background_monitoring.  A step is one statement of  *)
(* monitor_continuous that reads or writes is_monitoring, or one phase of  *)
(* scrape_account.                                                         *)
(***************************************************************************)
Threads == {"main", "worker"}

\* the positions inside monitor_continuous
MonitorPcs == {"mc_enter", "mc_while", "mc_for", "mc_call", "mc_pause",
               "mc_wait", "mc_sleep", "mc_finally"}

\* the positions inside scrape_account
CollectionPcs == {"sa_collect", "sa_save"}

\* the positions inside the try block of monitor_continuous
TryPcs == (MonitorPcs \ {"mc_enter", "mc_finally"}) \cup CollectionPcs

\* threading.Thread.is_alive of the monitoring thread
is_alive == at["worker"] # "dead"

\* thread t is inside monitor_continuous
Monitors(t) == t = "worker" \/ foreground

\* thread t goes to position `to`; `note` tells what the step was
Goes(t, to, note) ==
    /\ at' = [at EXCEPT ![t] = to]
    /\ lastStep' = [lastStep EXCEPT ![t] = note]

\* a read of self.is_monitoring
ReadFlag == IF is_monitoring THEN "read_true" ELSE "read_false"

\* variant of NextTargetPc: the next account is fetched without the test
NextTargetUnchecked == "mc_call"

\* `for username in accounts` takes the next account: the loop body starts
\* with `if not self.is_monitoring: break`
NextTargetPc == "mc_for"

\* self.is_monitoring = True
mc_enter ==
    \E t \in Threads :
       /\ at[t] = "mc_enter"
       /\ is_monitoring' = TRUE
       /\ Goes(t, "mc_while", "other")
       /\ UNCHANGED <<monitoring_thread, acct, foreground, stopPending, fetchAfterStop>>
       /\ UNCHANGED notMonitor

\* while self.is_monitoring:
mc_while ==
    \E t \in Threads :
       /\ at[t] = "mc_while"
       /\ IF is_monitoring
          THEN /\ Goes(t, "mc_for", ReadFlag)
               /\ acct' = [acct EXCEPT ![t] = 1]
          ELSE /\ Goes(t, "mc_finally", ReadFlag)
               /\ UNCHANGED acct
       /\ UNCHANGED <<is_monitoring, monitoring_thread, foreground, stopPending, fetchAfterStop>>
       /\ UNCHANGED notMonitor

\* if not self.is_monitoring: break
mc_for ==
    \E t \in Threads :
       /\ at[t] = "mc_for"
       /\ Goes(t, IF is_monitoring THEN "mc_call" ELSE "mc_wait", ReadFlag)
       /\ fetchAfterStop' = (fetchAfterStop \/ (t = "worker" /\ stopPending /\ is_monitoring))
       /\ UNCHANGED <<is_monitoring, monitoring_thread, acct, foreground, stopPending>>
       /\ UNCHANGED notMonitor

\* tweets = self.scrape_account(username, max_tweets=10): the call
mc_call ==
    \E t \in Threads :
       /\ at[t] = "mc_call"
       /\ Goes(t, "sa_collect", "other")
       /\ UNCHANGED <<is_monitoring, monitoring_thread, acct, foreground, stopPending, fetchAfterStop>>
       /\ UNCHANGED notMonitor

\* scrape_account: the collectors
sa_collect ==
    \E t \in Threads :
       /\ at[t] = "sa_collect"
       /\ Goes(t, "sa_save", "other")
       /\ UNCHANGED <<is_monitoring, monitoring_thread, acct, foreground, stopPending, fetchAfterStop>>
       /\ UNCHANGED notMonitor

\* scrape_account: `for tweet in tweets: self.db.save_tweet(tweet)`, return
sa_save ==
    \E t \in Threads :
       /\ at[t] = "sa_save"
       /\ Goes(t, IF Monitors(t) THEN "mc_pause" ELSE "idle", "other")
       /\ UNCHANGED <<is_monitoring, monitoring_thread, acct, foreground, stopPending, fetchAfterStop>>
       /\ UNCHANGED notMonitor

\* time.sleep(5), then the next account or the end of the for loop
mc_pause ==
    \E t \in Threads :
       /\ at[t] = "mc_pause"
       /\ IF acct[t] < NumAccounts
          THEN /\ acct' = [acct EXCEPT ![t] = @ + 1]
               /\ Goes(t, NextTargetPc, "other")
          ELSE /\ UNCHANGED acct
               /\ Goes(t, "mc_wait", "other")
       /\ UNCHANGED <<is_monitoring, monitoring_thread, foreground, stopPending, fetchAfterStop>>
       /\ UNCHANGED notMonitor

\* scrape_account raises inside the monitoring loop: `except Exception as e`
\* logs it, and the for loop takes the next account without the pause
mc_except ==
    \E t \in Threads :
       /\ at[t] \in CollectionPcs
       /\ Monitors(t)
       /\ IF acct[t] < NumAccounts
          THEN /\ acct' = [acct EXCEPT ![t] = @ + 1]
               /\ Goes(t, NextTargetPc, "other")
          ELSE /\ UNCHANGED acct
               /\ Goes(t, "mc_wait", "other")
       /\ UNCHANGED <<is_monitoring, monitoring_thread, foreground, stopPending, fetchAfterStop>>
       /\ UNCHANGED notMonitor

\* wait_time = max(0, interval - cycle_time);
\* if wait_time > 0 and self.is_monitoring:
mc_wait ==
    \E t \in Threads, wait_positive \in BOOLEAN :
       /\ at[t] = "mc_wait"
       /\ IF wait_positive
          THEN Goes(t, IF is_monitoring THEN "mc_sleep" ELSE "mc_while", ReadFlag)
          ELSE Goes(t, "mc_while", "other")
       /\ UNCHANGED <<is_monitoring, monitoring_thread, acct, foreground, stopPending, fetchAfterStop>>
       /\ UNCHANGED notMonitor

\* time.sleep(wait_time)
mc_sleep ==
    \E t \in Threads :
       /\ at[t] = "mc_sleep"
       /\ Goes(t, "mc_while", "other")
       /\ UNCHANGED <<is_monitoring, monitoring_thread, acct, foreground, stopPending, fetchAfterStop>>
       /\ UNCHANGED notMonitor

\* except KeyboardInterrupt: only the caller's thread receives it
mc_interrupt ==
    /\ foreground
    /\ at["main"] \in TryPcs
    /\ Goes("main", "mc_finally", "other")
    /\ UNCHANGED <<is_monitoring, monitoring_thread, acct, foreground, stopPending, fetchAfterStop>>
    /\ UNCHANGED notMonitor

\* finally: self.is_monitoring = False
mc_finally ==
    \E t \in Threads :
       /\ at[t] = "mc_finally"
       /\ is_monitoring' = FALSE
       /\ Goes(t, IF t = "worker" THEN "dead" ELSE "idle", "other")
       /\ foreground' = IF t = "main" THEN FALSE ELSE foreground
       /\ UNCHANGED <<monitoring_thread, acct, stopPending, fetchAfterStop>>
       /\ UNCHANGED notMonitor

\* the caller calls monitor_continuous
monitor_continuous ==
    /\ at["main"] = "idle"
    /\ Goes("main", "mc_enter", "other")
    /\ foreground' = TRUE
    /\ stopPending' = FALSE
    /\ UNCHANGED <<is_monitoring, monitoring_thread, acct, fetchAfterStop>>
    /\ UNCHANGED notMonitor

\* the caller calls scrape_account
scrape_account ==
    /\ at["main"] = "idle"
    /\ Goes("main", "sa_collect", "other")
    /\ UNCHANGED <<is_monitoring, monitoring_thread, acct, foreground, stopPending, fetchAfterStop>>
    /\ UNCHANGED notMonitor

start_background_monitoring ==
    /\ at["main"] = "idle"
    /\ IF monitoring_thread /\ is_alive
       THEN UNCHANGED <<monitoring_thread, at, lastStep, stopPending, fetchAfterStop>>
       ELSE /\ monitoring_thread' = TRUE
            /\ Goes("worker", "mc_enter", "other")
            /\ stopPending' = FALSE
            /\ fetchAfterStop' = FALSE
    /\ UNCHANGED <<is_monitoring, acct, foreground>>
    /\ UNCHANGED notMonitor

\* self.is_monitoring = False, then the join if there is a thread
stop_monitoring ==
    /\ at["main"] = "idle"
    /\ is_monitoring' = FALSE
    /\ stopPending' = (stopPending \/ is_alive)
    /\ Goes("main", IF monitoring_thread THEN "join" ELSE "idle", "other")
    /\ UNCHANGED <<monitoring_thread, acct, foreground, fetchAfterStop>>
    /\ UNCHANGED notMonitor

\* self.monitoring_thread.join(timeout=10) returns: the thread has ended,
\* or the ten seconds have passed
join ==
    /\ at["main"] = "join"
    /\ Goes("main", "idle", "other")
    /\ UNCHANGED <<is_monitoring, monitoring_thread, acct, foreground, stopPending, fetchAfterStop>>
    /\ UNCHANGED notMonitor

\* cleanup, up to the join inside its stop_monitoring call; without a
\* monitoring thread there is no join, and the closes follow at once
cleanup ==
    /\ at["main"] = "idle"
    /\ is_monitoring' = FALSE
    /\ stopPending' = (stopPending \/ is_alive)
    /\ Goes("main", IF monitoring_thread THEN "cleanup_join" ELSE "closed", "other")
    /\ UNCHANGED <<monitoring_thread, acct, foreground, fetchAfterStop>>
    /\ UNCHANGED notMonitor

\* the join of cleanup returns (the thread has ended, or the ten seconds
\* have passed), then self.selenium_scraper.close() and self.db.close()
cleanup_close ==
    /\ at["main"] = "cleanup_join"
    /\ Goes("main", "closed", "other")
    /\ UNCHANGED <<is_monitoring, monitoring_thread, acct, foreground, stopPending, fetchAfterStop>>
    /\ UNCHANGED notMonitor

InitMonitor ==
    /\ is_monitoring = FALSE
    /\ monitoring_thread = FALSE
    /\ at = [t \in Threads |-> IF t = "main" THEN "idle" ELSE "dead"]
    /\ acct = [t \in Threads |-> 1]
    /\ foreground = FALSE
    /\ lastStep = [t \in Threads |-> "other"]
    /\ stopPending = FALSE
    /\ fetchAfterStop = FALSE

NextMonitor ==
    \/ mc_enter \/ mc_while \/ mc_for \/ mc_call \/ sa_collect \/ sa_save
    \/ mc_pause \/ mc_except \/ mc_wait \/ mc_sleep \/ mc_interrupt \/ mc_finally
    \/ monitor_continuous \/ scrape_account \/ start_background_monitoring
    \/ stop_monitoring \/ join
    \/ cleanup \/ cleanup_close

(***************************************************************************)
(* SeleniumTwitterScraper.scrape_user_timeline: the scroll loop.  One pass *)
(* of the while loop is one step: the rendered elements are read, the page *)
(* is scrolled and the document height is read.  Of the tweets the model   *)
(* keeps their number.                                                     *)
(***************************************************************************)
\* whether the while loop takes another pass
ScrollsOn ==
    timeline_tweets < max_tweets /\ no_new_content_count < max_no_content

\* the variant of CountAfterElements that leaves the counter when nothing is new
CountKept(count, new) == IF new = 0 THEN count ELSE 0

\* no_new_content_count after the elements were read: `new` unique tweets
\* were appended
CountAfterElements(count, new) == IF new = 0 THEN count + 1 ELSE 0

\* no_new_content_count after the scroll: new_height against last_height
CountAfterScroll(count, new_height, height) ==
    IF new_height = height THEN count + 1 ELSE count

\* the heights the document may have after a scroll: it has grown or not
HeightsAfter(height) == {h \in {height, height + 1} : h >= 1 /\ h <= MaxHeight}

\* one pass of the while loop
scroll_iteration ==
    /\ scrollPc = "loop"
    /\ ScrollsOn
    /\ \E new \in 0..MaxNewPerScroll, new_height \in HeightsAfter(last_height) :
          /\ timeline_tweets + new <= max_tweets
          /\ timeline_tweets' = timeline_tweets + new
          /\ no_new_content_count' =
                CountAfterScroll(CountAfterElements(no_new_content_count, new),
                                 new_height, last_height)
          /\ last_height' = new_height
          /\ stalledRun' = IF new = 0 /\ new_height = last_height
                           THEN stalledRun + 1 ELSE 0
    /\ UNCHANGED <<scrollPc, scrollFailed>>
    /\ UNCHANGED notTimeline

\* the while condition fails: return tweets
scroll_return ==
    /\ scrollPc = "loop"
    /\ ~ScrollsOn
    /\ scrollPc' = "done"
    /\ UNCHANGED <<timeline_tweets, no_new_content_count, last_height, stalledRun,
                   scrollFailed>>
    /\ UNCHANGED notTimeline

\* the driver raises inside the loop: except Exception, return []
scroll_error ==
    /\ scrollPc = "loop"
    /\ ScrollsOn
    /\ scrollPc' = "done"
    /\ timeline_tweets' = 0
    /\ scrollFailed' = TRUE
    /\ UNCHANGED <<no_new_content_count, last_height, stalledRun>>
    /\ UNCHANGED notTimeline

InitTimeline ==
    /\ scrollPc = "loop"
    /\ timeline_tweets = 0
    /\ no_new_content_count = 0
    /\ last_height = 0
    /\ stalledRun = 0
    /\ scrollFailed = FALSE

\* no scrape_user_timeline call under way
TimelineIdle ==
    /\ scrollPc = "done"
    /\ timeline_tweets = 0
    /\ no_new_content_count = 0
    /\ last_height = 0
    /\ stalledRun = 0
    /\ scrollFailed = FALSE

NextTimeline == scroll_iteration \/ scroll_return \/ scroll_error

(***************************************************************************)
(* DataPersistence.get_tweets and get_trending_analysis.  Time is counted  *)
(* in hours.  A datetime is its wall-clock hour and whether it carries a   *)
(* UTC offset: _process_api_data parses the API's created_at, which does,  *)
(* while datetime.now() does not.  The table stores timestamp as the TEXT  *)
(* of isoformat(), and SQLite compares and sorts TEXT character by         *)
(* character.                                                              *)
(***************************************************************************)
\* datetime.isoformat(): "...THH:00:00" of a naive datetime, with "+00:00"
\* appended for an aware one
timestamp_text(dt) == [wall |-> dt.wall, zone |-> IF dt.aware THEN "+00:00" ELSE ""]

\* SQLite's a < b on two such TEXT values: the fields of the wall clock have
\* fixed widths, and a text is greater than its proper prefix
TextLess(a, b) ==
    \/ a.wall < b.wall
    \/ a.wall = b.wall /\ a.zone = "" /\ b.zone = "+00:00"

\* the instant, in hours UTC, that a timestamp text denotes on this machine
Instant(text) == IF text.zone = "" THEN text.wall - utcoffset ELSE text.wall

\* the current instant, UTC
NowUtc == MaxWall

\* datetime.now(): naive local time
LocalNow == [wall |-> NowUtc + utcoffset, aware |-> FALSE]

\* datetime.now() - timedelta(hours=hours)
HoursAgo(hours) == [wall |-> LocalNow.wall - hours, aware |-> FALSE]

Usernames == {"alice", "bob"}
Engagements == {[likes |-> 7, retweets |-> 1, sentiment_label |-> "positive"],
                [likes |-> 0, retweets |-> 0, sentiment_label |-> "positive"],
                [likes |-> 7, retweets |-> 1, sentiment_label |-> "neutral"]}

\* the rows the table may hold for a tweet_id
PostRows(id) ==
    {[tweet_id |-> id, username |-> u, timestamp |-> timestamp_text([wall |-> w, aware |-> a]),
      likes |-> e.likes, retweets |-> e.retweets, sentiment_label |-> e.sentiment_label] :
        u \in Usernames, w \in 0..MaxWall, a \in BOOLEAN, e \in Engagements}

\* the filters of get_tweets: <<>> stands for a key that is not given, <<v>>
\* for a key given with the value v
FilterSets ==
    [username : {<<>>, <<"alice">>},
     since : {<<>>} \cup {<<timestamp_text([wall |-> w, aware |-> FALSE])>> : w \in 0..MaxWall},
     sentiment : {<<>>, <<"positive">>},
     min_engagement : {<<>>, <<8>>}]

\* the WHERE clause that get_tweets builds
Where(row, filters) ==
    /\ filters.username # <<>> => row.username = filters.username[1]
    /\ filters.since # <<>> => ~TextLess(row.timestamp, filters.since[1])
    /\ filters.sentiment # <<>> => row.sentiment_label = filters.sentiment[1]
    /\ filters.min_engagement # <<>> =>
          row.likes + row.retweets >= filters.min_engagement[1]

\* ORDER BY timestamp DESC: every order of the rows in which no row comes
\* before a row with a greater timestamp text
OrderByTimestampDesc(rows) ==
    {sq \in [1..Cardinality(rows) -> rows] :
        /\ \A i \in DOMAIN sq : \A j \in DOMAIN sq : i # j => sq[i] # sq[j]
        /\ \A i \in DOMAIN sq : \A j \in DOMAIN sq :
              i < j => ~TextLess(sq[i].timestamp, sq[j].timestamp)}

\* LIMIT ?
Limit(sq, limit) == SubSeq(sq, 1, IF limit < Len(sq) THEN limit ELSE Len(sq))

\* get_tweets(filters, limit)
get_tweets ==
    /\ queryPc = "idle"
    /\ \E filters \in FilterSets, limit \in 1..MaxLimit :
          /\ query' = [name |-> "get_tweets", filters |-> filters, limit |-> limit]
          /\ \E sq \in OrderByTimestampDesc({r \in tweets_rows : Where(r, filters)}) :
                answer' = Limit(sq, limit)
    /\ queryPc' = "answered"
    /\ UNCHANGED <<tweets_rows, utcoffset>>
    /\ UNCHANGED notQuery

\* SELECT ... FROM tweets WHERE timestamp > ?, with the cutoff's isoformat()
AfterCutoff(row, cutoff) == TextLess(timestamp_text(cutoff), row.timestamp)

\* get_trending_analysis(hours): of its result the model keeps total_tweets
get_trending_analysis ==
    /\ queryPc = "idle"
    /\ \E hours \in 1..MaxHours :
          /\ query' = [name |-> "get_trending_analysis", hours |-> hours]
          /\ answer' = Cardinality({r \in tweets_rows : AfterCutoff(r, HoursAgo(hours))})
    /\ queryPc' = "answered"
    /\ UNCHANGED <<tweets_rows, utcoffset>>
    /\ UNCHANGED notQuery

\* the filters {'since': since} of generate_intelligence_report
SinceOnly(since) ==
    [username |-> <<>>, since |-> <<since>>, sentiment |-> <<>>, min_engagement |-> <<>>]

\* sentiment_counts of get_trending_analysis over its rows
sentiment_breakdown(rows) ==
    [label \in {"positive", "neutral"} |->
        Cardinality({r \in rows : r.sentiment_label = label})]

\* generate_intelligence_report(hours): get_trending_analysis(hours), then
\* get_tweets({'since': since}, limit=10000); of the report the model keeps
\* the summary's total, the list the summary and the alerts are computed
\* from, the unique accounts and the sentiment counts
generate_intelligence_report ==
    /\ queryPc = "idle"
    /\ \E hours \in 1..MaxHours :
          LET counted == {r \in tweets_rows : AfterCutoff(r, HoursAgo(hours))}
              since == timestamp_text(HoursAgo(hours))
          IN  /\ query' = [name |-> "generate_intelligence_report", hours |-> hours]
              /\ \E sq \in OrderByTimestampDesc({r \in tweets_rows : Where(r, SinceOnly(since))}) :
                    LET tweets_read == Limit(sq, ReportLimit)
                    IN  answer' = [total_tweets_analyzed |-> Cardinality(counted),
                                   analyzed |-> tweets_read,
                                   unique_accounts |->
                                       Cardinality({tweets_read[i].username : i \in DOMAIN tweets_read}),
                                   sentiment_analysis |-> sentiment_breakdown(counted)]
    /\ queryPc' = "answered"
    /\ UNCHANGED <<tweets_rows, utcoffset>>
    /\ UNCHANGED notQuery

\* the tables: at most one row per tweet_id
Tables ==
    UNION {{{f[id] : id \in S} :
               f \in {g \in [S -> UNION {PostRows(id) : id \in Ids}] :
                         \A id \in S : g[id].tweet_id = id}} : S \in SUBSET Ids}

InitQuery ==
    /\ tweets_rows \in Tables
    /\ utcoffset \in {0, 1}
    /\ queryPc = "idle"
    /\ query = [name |-> "none"]
    /\ answer = <<>>

\* no query under way, on an empty table
QueryIdle ==
    /\ tweets_rows = {}
    /\ utcoffset = 0
    /\ queryPc = "idle"
    /\ query = [name |-> "none"]
    /\ answer = <<>>

NextQuery == get_tweets \/ get_trending_analysis \/ generate_intelligence_report

(***************************************************************************)
(* A call of SentimentAnalyzer.analyze on any text of at most MaxTokens    *)
(* tokens.                                                                 *)
(***************************************************************************)
RECURSIVE TextsOfLength(_)
TextsOfLength(n) ==
    IF n = 0 THEN {<<>>}
    ELSE {Append(text, token) : text \in TextsOfLength(n - 1), token \in Vocabulary}

\* two longer texts: five lexicon words of one sign, three of the other and
\* two emoji literals give the doubles 0.15 and -0.15
BoundaryTexts ==
    {<<"moon", "pump", "gains", "rally", "hodl", "crash", "dump", "scam",
       "<chart-down>", "<chart-down>">>,
     <<"crash", "dump", "scam", "hack", "fud", "moon", "pump", "gains",
       "<rocket>", "<rocket>">>}

Texts == UNION {TextsOfLength(n) : n \in 0..MaxTokens} \cup BoundaryTexts

NotAnalyzed == [label |-> "none"]

\* sentiment = self.sentiment_analyzer.analyze(text)
analyze_call ==
    /\ analysis = NotAnalyzed
    /\ analysis' = analyze(input_text)
    /\ UNCHANGED input_text
    /\ UNCHANGED notAnalyzer

InitAnalyzer ==
    /\ input_text \in Texts
    /\ analysis = NotAnalyzed

\* no call of analyze under way
AnalyzerIdle ==
    /\ input_text = <<>>
    /\ analysis = NotAnalyzed

NextAnalyzer == analyze_call

(***************************************************************************)
(* SeleniumTwitterScraper._parse_number.  An engagement string is the      *)
(* sequence of its characters; "x" stands for any character that is        *)
(* neither a digit nor "." nor one of k, m, b in either case.              *)
(***************************************************************************)
Alphabet == {"9", ".", "k", "M", "x"}
Digits == {"0", "1", "2", "3", "4", "5", "6", "7", "8", "9"}
Suffixes == {"K", "M", "B"}

\* str.upper(), character by character
Upper(c) == IF c = "k" THEN "K" ELSE IF c = "m" THEN "M" ELSE IF c = "b" THEN "B" ELSE c
UpperText(text) == [i \in 1..Len(text) |-> Upper(text[i])]

\* re.sub(r'[^\d.KMB]', '', text.upper())
IsKept(c) == c \in Digits \cup {"."} \cup Suffixes
Cleaned(text) == SelectSeq(UpperText(text), IsKept)

\* c in text
HasChar(text, c) == \E i \in 1..Len(text) : text[i] = c

\* text.replace(c, '')
RECURSIVE Without(_, _)
Without(text, c) ==
    IF text = <<>> THEN <<>>
    ELSE IF Head(text) = c THEN Without(Tail(text), c)
    ELSE <<Head(text)>> \o Without(Tail(text), c)

\* the if / elif / elif on 'K', 'M', 'B': the multiplier and the text left
multiplier(text) ==
    IF HasChar(text, "K") THEN 1000
    ELSE IF HasChar(text, "M") THEN 1000000
    ELSE IF HasChar(text, "B") THEN 1000000000
    ELSE 1
Unsuffixed(text) ==
    IF HasChar(text, "K") THEN Without(text, "K")
    ELSE IF HasChar(text, "M") THEN Without(text, "M")
    ELSE IF HasChar(text, "B") THEN Without(text, "B")
    ELSE text

\* float(text) succeeds: digits with at most one ".", and at least one digit
IsFloat(text) ==
    /\ \A i \in 1..Len(text) : text[i] \in Digits \cup {"."}
    /\ Cardinality({i \in 1..Len(text) : text[i] = "."}) <= 1
    /\ \E i \in 1..Len(text) : text[i] \in Digits

DigitValue(c) ==
    CASE c = "0" -> 0 [] c = "1" -> 1 [] c = "2" -> 2 [] c = "3" -> 3 [] c = "4" -> 4
      [] c = "5" -> 5 [] c = "6" -> 6 [] c = "7" -> 7 [] c = "8" -> 8 [] c = "9" -> 9

\* the digits of text read as one integer, and the number of digits after "."
RECURSIVE DigitsValue(_)
DigitsValue(text) ==
    IF text = <<>> THEN 0
    ELSE LET c == text[Len(text)]
             rest == SubSeq(text, 1, Len(text) - 1)
         IN IF c = "." THEN DigitsValue(rest) ELSE 10 * DigitsValue(rest) + DigitValue(c)
Decimals(text) ==
    IF HasChar(text, ".")
    THEN Len(text) - (CHOOSE i \in 1..Len(text) : text[i] = ".")
    ELSE 0

RECURSIVE Pow10(_)
Pow10(k) == IF k = 0 THEN 1 ELSE 10 * Pow10(k - 1)

\* int(float(text) * multiplier): the product, truncated
Truncated(text, mult) == (DigitsValue(text) * mult) \div Pow10(Decimals(text))

\* _parse_number(text)
parse_number(text) ==
    IF text = <<>> THEN 0
    ELSE LET cleaned == Cleaned(text)
         IN IF cleaned = <<>> THEN 0
            ELSE IF IsFloat(Unsuffixed(cleaned))
                 THEN Truncated(Unsuffixed(cleaned), multiplier(cleaned))
                 ELSE 0

\* the strings whose number times its multiplier is below 10^9
Below10To9(text) ==
    LET cleaned == Cleaned(text)
        zeros == IF HasChar(cleaned, "K") THEN 3 ELSE IF HasChar(cleaned, "M") THEN 6 ELSE 0
    IN Cardinality({i \in 1..Len(cleaned) : cleaned[i] \in Digits}) + zeros <= 9

NotParsed == 0 - 1

\* the page shows one more character of the string
next_char ==
    /\ parsed = NotParsed
    /\ Len(number_text) < MaxChars
    /\ \E c \in Alphabet : number_text' = Append(number_text, c)
    /\ UNCHANGED parsed
    /\ UNCHANGED notParser

\* metrics[...] = self._parse_number(...)
parse_number_call ==
    /\ parsed = NotParsed
    /\ Below10To9(number_text)
    /\ parsed' = parse_number(number_text)
    /\ UNCHANGED number_text
    /\ UNCHANGED notParser

InitParser ==
    /\ number_text = <<>>
    /\ parsed = NotParsed

\* no string under way
ParserIdle ==
    /\ number_text = <<>>
    /\ parsed = NotParsed

NextParser == next_char \/ parse_number_call

(***************************************************************************)
(* The browser session of a mirror run: main of generic_scraper.py and of  *)
(* scrape_crypto_fast.py, scrape_nitter_alternative of                     *)
(* scrape_without_login.py.  Of a page fetch the model keeps its outcome;  *)
(* an Exception raised by a fetch is caught where it is raised, a          *)
(* KeyboardInterrupt is not (`except Exception` does not catch it).        *)
(***************************************************************************)
\* the scripts whose run is inside try: ... finally: if driver: driver.quit()
HasFinally(sc) == sc \in {"generic_scraper", "scrape_crypto_fast"}

\* the page fetches of a whole run
MaxVisits == NumMirrors * NumTargets

\* the loop over the mirrors is left: all mirrors tried, or `break` after a
\* mirror that gave records
LoopIsOver ==
    \/ visits = MaxVisits
    \/ visits > 0 /\ visits % NumTargets = 0 /\ session_results > 0

\* where control goes when an exception leaves the loop or the save: into the
\* finally block if there is one, else out of the function
Unwind(exception) ==
    IF HasFinally(session_script)
    THEN /\ sessionPc' = "finally"
         /\ pending' = exception
    ELSE /\ sessionPc' = "raised"
         /\ pending' = exception

\* driver = setup_driver()
setup_driver ==
    /\ sessionPc = "start"
    /\ \/ /\ driver' = "open"
          /\ sessionPc' = "loop"
          /\ UNCHANGED pending
       \/ /\ UNCHANGED driver
          /\ Unwind("Exception")
    /\ UNCHANGED <<session_script, visits, session_results>>
    /\ UNCHANGED notSession

\* one page fetch and the extraction of its records
fetch_page ==
    /\ sessionPc = "loop"
    /\ ~LoopIsOver
    /\ \/ /\ \E n \in 0..1 :
                session_results' =
                   IF session_results + n > MaxResults THEN MaxResults ELSE session_results + n
          /\ visits' = visits + 1
          /\ UNCHANGED <<sessionPc, pending>>
       \/ \* the rate-limit banner: the rest of the mirror is skipped
          /\ visits' = visits + NumTargets - (visits % NumTargets)
          /\ UNCHANGED <<session_results, sessionPc, pending>>
       \/ /\ visits' = visits + 1
          /\ Unwind("KeyboardInterrupt")
          /\ UNCHANGED session_results
    /\ UNCHANGED <<session_script, driver>>
    /\ UNCHANGED notSession

\* after the loop: save_to_database and display_results, or driver.quit()
leave_loop ==
    /\ sessionPc = "loop"
    /\ LoopIsOver
    /\ sessionPc' = IF HasFinally(session_script) THEN "save" ELSE "quit"
    /\ UNCHANGED <<session_script, driver, visits, session_results, pending>>
    /\ UNCHANGED notSession

\* if all_tweets: save_to_database(...); display_results(...)
save_results ==
    /\ sessionPc = "save"
    /\ \/ /\ sessionPc' = "finally"
          /\ UNCHANGED pending
       \/ /\ session_results > 0
          /\ \E exception \in {"Exception", "KeyboardInterrupt"} : Unwind(exception)
    /\ UNCHANGED <<session_script, driver, visits, session_results>>
    /\ UNCHANGED notSession

\* finally: if driver: driver.quit()
finally_block ==
    /\ sessionPc = "finally"
    /\ driver' = IF driver = "open" THEN "quit" ELSE driver
    /\ sessionPc' = IF pending = "none" THEN "returned" ELSE "raised"
    /\ UNCHANGED <<session_script, visits, session_results, pending>>
    /\ UNCHANGED notSession

\* scrape_nitter_alternative: driver.quit(); return results
quit_and_return ==
    /\ sessionPc = "quit"
    /\ driver' = "quit"
    /\ sessionPc' = "returned"
    /\ UNCHANGED <<session_script, visits, session_results, pending>>
    /\ UNCHANGED notSession

InitSession ==
    /\ session_script \in Scripts
    /\ driver = "none"
    /\ sessionPc = "start"
    /\ visits = 0
    /\ session_results = 0
    /\ pending = "none"

\* no mirror run under way
SessionIdle ==
    /\ session_script = "generic_scraper"
    /\ driver = "none"
    /\ sessionPc = "returned"
    /\ visits = 0
    /\ session_results = 0
    /\ pending = "none"

NextSession ==
    \/ setup_driver
    \/ fetch_page
    \/ leave_loop
    \/ save_results
    \/ finally_block
    \/ quit_and_return

(***************************************************************************)
(* monitor_continuous: the timing of one monitoring loop.  The for loop    *)
(* over the accounts is one step that takes some time; time.sleep returns  *)
(* after the time asked for, or later.  stop_monitoring may clear the flag *)
(* at any moment.                                                          *)
(***************************************************************************)
\* variant of WaitTime: the loop waits the whole interval after every cycle
WaitWholeInterval(itv, cycle_time) == itv

\* wait_time = max(0, interval - cycle_time)
WaitTime(itv, cycle_time) ==
    IF itv - cycle_time > 0 THEN itv - cycle_time ELSE 0

\* the caller, or the monitoring thread, enters monitor_continuous:
\* self.is_monitoring = True
cycle_enter ==
    /\ cyclePc = "idle"
    /\ \E itv \in 0..MaxInterval : interval' = itv
    /\ cycle_flag' = TRUE
    /\ cyclePc' = "while"
    /\ UNCHANGED <<wall, cycle_start, wait_time, cycleStarts, cycleTimes, cycleSleeps>>
    /\ UNCHANGED notCycle

\* while self.is_monitoring: cycle_start = time.time()
cycle_begin ==
    /\ cyclePc = "while"
    /\ IF cycle_flag /\ Len(cycleStarts) < MaxCycles
       THEN /\ cycle_start' = wall
            /\ cycleStarts' = Append(cycleStarts, wall)
            /\ cyclePc' = "for"
       ELSE /\ cyclePc' = "finally"
            /\ UNCHANGED <<cycle_start, cycleStarts>>
    /\ UNCHANGED <<wall, interval, cycle_flag, wait_time, cycleTimes, cycleSleeps>>
    /\ UNCHANGED notCycle

\* for username in accounts: ... ; the loop takes some time
cycle_accounts ==
    /\ cyclePc = "for"
    /\ \E taken \in 0..MaxCycleTime : wall' = wall + taken
    /\ cyclePc' = "wait"
    /\ UNCHANGED <<interval, cycle_flag, cycle_start, wait_time, cycleStarts,
                   cycleTimes, cycleSleeps>>
    /\ UNCHANGED notCycle

\* cycle_time = time.time() - cycle_start; wait_time = max(0, ...);
\* if wait_time > 0 and self.is_monitoring: time.sleep(wait_time)
cycle_wait ==
    /\ cyclePc = "wait"
    /\ LET cycle_time == wall - cycle_start
           wait == WaitTime(interval, cycle_time)
       IN /\ wait_time' = wait
          /\ cycleTimes' = Append(cycleTimes, cycle_time)
          /\ IF wait > 0 /\ cycle_flag
             THEN /\ \E over \in 0..MaxOversleep : wall' = wall + wait + over
                  /\ cycleSleeps' = Append(cycleSleeps, wait)
             ELSE /\ wall' = wall
                  /\ cycleSleeps' = Append(cycleSleeps, 0)
    /\ cyclePc' = "while"
    /\ UNCHANGED <<interval, cycle_flag, cycle_start, cycleStarts>>
    /\ UNCHANGED notCycle

\* stop_monitoring, in another thread: self.is_monitoring = False
cycle_stop ==
    /\ cyclePc \in {"while", "for", "wait"}
    /\ cycle_flag
    /\ cycle_flag' = FALSE
    /\ UNCHANGED <<wall, interval, cyclePc, cycle_start, wait_time, cycleStarts,
                   cycleTimes, cycleSleeps>>
    /\ UNCHANGED notCycle

\* finally: self.is_monitoring = False
cycle_finally ==
    /\ cyclePc = "finally"
    /\ cycle_flag' = FALSE
    /\ cyclePc' = "returned"
    /\ UNCHANGED <<wall, interval, cycle_start, wait_time, cycleStarts,
                   cycleTimes, cycleSleeps>>
    /\ UNCHANGED notCycle

InitCycle ==
    /\ wall \in 0..1
    /\ interval = 0
    /\ cyclePc = "idle"
    /\ cycle_flag = FALSE
    /\ cycle_start = 0
    /\ wait_time = 0
    /\ cycleStarts = <<>>
    /\ cycleTimes = <<>>
    /\ cycleSleeps = <<>>

\* no monitoring loop under way
CycleIdle ==
    /\ wall = 0
    /\ interval = 0
    /\ cyclePc = "returned"
    /\ cycle_flag = FALSE
    /\ cycle_start = 0
    /\ wait_time = 0
    /\ cycleStarts = <<>>
    /\ cycleTimes = <<>>
    /\ cycleSleeps = <<>>

NextCycle ==
    \/ cycle_enter
    \/ cycle_begin
    \/ cycle_accounts
    \/ cycle_wait
    \/ cycle_stop
    \/ cycle_finally

(***************************************************************************)
(* DataPersistence.get_trending_analysis: the aggregation over the rows    *)
(* that the SELECT fetched.  A row is its username, its list of hashtags   *)
(* and its likes + retweets.  A dict keeps its keys in the order in which  *)
(* they were first inserted, so a dict is the sequence of its entries.     *)
(***************************************************************************)
TrendUsers == {"alice", "bob", "carol"}
TrendRows ==
    [username : TrendUsers,
     hashtags : {<<>>, <<"btc">>, <<"eth", "btc">>, <<"sol">>},
     engagement : {0, 1}]

\* the index of the entry of a dict that holds key, 0 if there is none
IndexOf(dict, key) ==
    IF \E i \in 1..Len(dict) : dict[i].key = key
    THEN CHOOSE i \in 1..Len(dict) : dict[i].key = key
    ELSE 0

\* d[key]['count'] += 1; d[key]['engagement'] += engagement, on a defaultdict
Counted(dict, key, engagement) ==
    LET i == IndexOf(dict, key)
    IN IF i = 0
       THEN Append(dict, [key |-> key, count |-> 1, engagement |-> engagement])
       ELSE [dict EXCEPT ![i] = [key |-> key, count |-> @.count + 1,
                                 engagement |-> @.engagement + engagement]]

RECURSIVE TagsCounted(_, _, _, _)
\* for tag in hashtags: ..., from the i-th tag of the row on
TagsCounted(dict, hashtags, engagement, i) ==
    IF i > Len(hashtags) THEN dict
    ELSE TagsCounted(Counted(dict, hashtags[i], engagement), hashtags, engagement, i + 1)

RECURSIVE hashtag_stats(_, _)
\* hashtag_counts and hashtag_engagement after the first n rows
hashtag_stats(rows, n) ==
    IF n = 0 THEN <<>>
    ELSE TagsCounted(hashtag_stats(rows, n - 1), rows[n].hashtags, rows[n].engagement, 1)

RECURSIVE account_stats(_, _)
\* account_stats after the first n rows
account_stats(rows, n) ==
    IF n = 0 THEN <<>>
    ELSE Counted(account_stats(rows, n - 1), rows[n].username, rows[n].engagement)

\* variant of InsertDescending: an entry goes before the entries of equal
\* engagement, as when an ascending sort is reversed
InsertBeforeEqual(sorted, entry) ==
    LET before == Cardinality({i \in 1..Len(sorted) : sorted[i].engagement > entry.engagement})
    IN SubSeq(sorted, 1, before) \o <<entry>> \o SubSeq(sorted, before + 1, Len(sorted))

\* sorted(..., key=lambda x: x[2], reverse=True) takes the entries in list
\* order and is stable: an entry goes after the entries of greater or equal
\* engagement that came before it
InsertDescending(sorted, entry) ==
    LET before == Cardinality({i \in 1..Len(sorted) : sorted[i].engagement >= entry.engagement})
    IN SubSeq(sorted, 1, before) \o <<entry>> \o SubSeq(sorted, before + 1, Len(sorted))

RECURSIVE SortedDescending(_, _)
\* the first n entries of a dict, sorted
SortedDescending(dict, n) ==
    IF n = 0 THEN <<>>
    ELSE InsertDescending(SortedDescending(dict, n - 1), dict[n])

\* the slice [:most]
Top(list, most) == SubSeq(list, 1, IF Len(list) < most THEN Len(list) ELSE most)

\* the store holds one more row in the window; the SELECT has no ORDER BY and
\* the scan may meet it at any place
trend_row ==
    /\ trendPc = "idle"
    /\ Len(scan) < MaxScan
    /\ \E row \in TrendRows : scan' = Append(scan, row)
    /\ UNCHANGED <<trendPc, trending>>
    /\ UNCHANGED notTrend

\* get_trending_analysis(hours) on the rows of the scan
trend_analysis ==
    /\ trendPc = "idle"
    /\ trending' =
          [total_tweets |-> Len(scan),
           top_hashtags |->
              LET stats == hashtag_stats(scan, Len(scan))
              IN Top(SortedDescending(stats, Len(stats)), TopHashtags),
           top_accounts |->
              LET stats == account_stats(scan, Len(scan))
              IN Top(SortedDescending(stats, Len(stats)), TopAccounts)]
    /\ trendPc' = "answered"
    /\ UNCHANGED scan
    /\ UNCHANGED notTrend

InitTrend ==
    /\ scan = <<>>
    /\ trendPc = "idle"
    /\ trending = [total_tweets |-> 0, top_hashtags |-> <<>>, top_accounts |-> <<>>]

\* no aggregation under way
TrendIdle ==
    /\ scan = <<>>
    /\ trendPc = "answered"
    /\ trending = [total_tweets |-> 0, top_hashtags |-> <<>>, top_accounts |-> <<>>]

NextTrend == trend_row \/ trend_analysis

(***************************************************************************)
(* The extraction of a record from a rendered post element, by             *)
(* search_keywords_nitter and scrape_accounts of generic_scraper.py, and   *)
(* by SeleniumTwitterScraper._extract_tweet_from_element.  An element      *)
(* holds or lacks its text, its time and its engagement sub-elements:      *)
(* <<>> for a sub-element that is missing, <<v>> for one that reads v.     *)
(***************************************************************************)
Extractors == {"search_keywords_nitter", "_extract_tweet_from_element"}

PostElements == [text : {<<>>, <<"gm">>}, time : {<<>>, <<"noon">>}, stats : {<<>>, <<5>>}]

\* the defaults: text = "", timestamp = datetime.now().isoformat(), and 0
DefaultText == ""
DefaultTimestamp == "now"
DefaultLikes == 0

\* the sub-element's value, or the default when find_element raised and the
\* except around that one read took over
OrDefault(field, default) == IF field = <<>> THEN default ELSE field[1]

\* _extract_tweet_from_element: every read has a try/except of its own
extract_tweet_from_element(element) ==
    <<[text |-> OrDefault(element.text, DefaultText),
       timestamp |-> OrDefault(element.time, DefaultTimestamp),
       likes |-> OrDefault(element.stats, DefaultLikes)]>>

\* the loop body of search_keywords_nitter: find_element of the text and of
\* the time stand in the try of the whole body, whose except is `continue`;
\* the engagement has a default
extract_nitter(element) ==
    IF element.text = <<>> \/ element.time = <<>>
    THEN <<>>
    ELSE <<[text |-> element.text[1],
            timestamp |-> element.time[1],
            likes |-> OrDefault(element.stats, DefaultLikes)]>>

\* one element is read
extract_element ==
    /\ element_index <= Len(elements)
    /\ emitted' = Append(emitted,
                         IF extractor = "search_keywords_nitter"
                         THEN extract_nitter(elements[element_index])
                         ELSE extract_tweet_from_element(elements[element_index]))
    /\ element_index' = element_index + 1
    /\ UNCHANGED <<extractor, elements>>
    /\ UNCHANGED notExtract

InitExtract ==
    /\ extractor \in Extractors
    /\ elements \in UNION {[1..n -> PostElements] : n \in 0..MaxElements}
    /\ element_index = 1
    /\ emitted = <<>>

\* no page being read
ExtractIdle ==
    /\ extractor = "search_keywords_nitter"
    /\ elements = <<>>
    /\ element_index = 1
    /\ emitted = <<>>

NextExtract == extract_element

(***************************************************************************)
(* SeleniumTwitterScraper.scrape_user_timeline and search_tweets, with the *)
(* records they accumulate.  One pass of the while loop is one step: the   *)
(* articles rendered at that moment are read in page order, each is        *)
(* extracted and appended unless its id was seen, and the page is          *)
(* scrolled.  An article holds its text and holds or lacks its time        *)
(* sub-element; the username is the same for all articles and left out.    *)
(***************************************************************************)
Collectors == {"scrape_user_timeline", "search_tweets"}

Articles == [text : {"gm", "gn"}, time : {<<>>, <<0>>}]

\* what find_elements may return in one pass: up to MaxPage different
\* articles, in page order
RenderedPages ==
    {page \in UNION {[1..n -> Articles] : n \in 0..MaxPage} :
        \A i, j \in 1..Len(page) : i # j => page[i] # page[j]}

\* the heights document.body.scrollHeight may read
DocHeights == {1, 2}

TextCode(text) == IF text = "gm" THEN 1 ELSE 2

\* hash(text + str(timestamp)): decided by the text and the timestamp, and
\* different arguments may meet in one value
tweet_id(text, timestamp) == (3 * TextCode(text) + timestamp) % HashSpace

\* the variant of tweet_id that reads the text alone
text_id(text, timestamp) == TextCode(text)

\* _extract_tweet_from_element when the clock reads `reading`
tweet_data(element, reading) ==
    LET timestamp == OrDefault(element.time, reading)
    IN  [id |-> tweet_id(element.text, timestamp),
         text |-> element.text,
         timestamp |-> timestamp]

\* the variant of Accumulate without the break at max_tweets
RECURSIVE AccumulateAll(_, _, _, _)
AccumulateAll(st, page, i, reading) ==
    IF i > Len(page)
    THEN st
    ELSE LET data == tweet_data(page[i], reading)
         IN  IF data.id \in st.seen
             THEN AccumulateAll(st, page, i + 1, reading)
             ELSE AccumulateAll([tweets |-> Append(st.tweets, data),
                                 seen |-> st.seen \cup {data.id},
                                 from |-> Append(st.from, page[i])],
                                page, i + 1, reading)

\* the for loop over tweet_elements, from element i of the page on: an
\* element whose id is new is added to seen_ids and appended, and the loop
\* breaks once max_tweets are held
RECURSIVE Accumulate(_, _, _, _)
Accumulate(st, page, i, reading) ==
    IF i > Len(page) \/ Len(st.tweets) >= max_tweets
    THEN st
    ELSE LET data == tweet_data(page[i], reading)
         IN  IF data.id \in st.seen
             THEN Accumulate(st, page, i + 1, reading)
             ELSE Accumulate([tweets |-> Append(st.tweets, data),
                              seen |-> st.seen \cup {data.id},
                              from |-> Append(st.from, page[i])],
                             page, i + 1, reading)

\* the while condition of the collector
CollectsOn ==
    /\ Len(collected) < max_tweets
    /\ IF collector = "scrape_user_timeline"
       THEN stall < max_no_content
       ELSE scroll_attempts < max_scrolls

\* the clock after a pass: it has moved on (the model stops it at MaxNow)
Later(reading) == IF reading < MaxNow THEN reading + 1 ELSE reading

\* one pass of the while loop of scrape_user_timeline
timeline_pass ==
    /\ collectPc = "loop"
    /\ collector = "scrape_user_timeline"
    /\ CollectsOn
    /\ \E page \in RenderedPages, new_height \in DocHeights :
          LET st == Accumulate([tweets |-> collected, seen |-> seenIds, from |-> madeFrom],
                               page, 1, moment)
          IN  /\ collected' = st.tweets
              /\ seenIds' = st.seen
              /\ madeFrom' = st.from
              /\ stall' = CountAfterScroll(
                             CountAfterElements(stall, Len(st.tweets) - Len(collected)),
                             new_height, doc_height)
              /\ doc_height' = new_height
    /\ moment' = Later(moment)
    /\ UNCHANGED <<collector, collectPc, scroll_attempts, collectResult>>
    /\ UNCHANGED notCollect

\* one pass of the while loop of search_tweets
search_pass ==
    /\ collectPc = "loop"
    /\ collector = "search_tweets"
    /\ CollectsOn
    /\ \E page \in RenderedPages :
          LET st == Accumulate([tweets |-> collected, seen |-> seenIds, from |-> madeFrom],
                               page, 1, moment)
          IN  /\ collected' = st.tweets
              /\ seenIds' = st.seen
              /\ madeFrom' = st.from
    /\ scroll_attempts' = scroll_attempts + 1
    /\ moment' = Later(moment)
    /\ UNCHANGED <<collector, collectPc, stall, doc_height, collectResult>>
    /\ UNCHANGED notCollect

\* the while condition fails: return tweets
collect_return ==
    /\ collectPc = "loop"
    /\ ~CollectsOn
    /\ collectPc' = "done"
    /\ collectResult' = <<collected>>
    /\ UNCHANGED <<collector, collected, seenIds, madeFrom, stall, doc_height,
                   scroll_attempts, moment>>
    /\ UNCHANGED notCollect

\* the driver raises inside the loop: except Exception, return []
collect_error ==
    /\ collectPc = "loop"
    /\ CollectsOn
    /\ collectPc' = "done"
    /\ collectResult' = <<(<<>>)>>
    /\ UNCHANGED <<collector, collected, seenIds, madeFrom, stall, doc_height,
                   scroll_attempts, moment>>
    /\ UNCHANGED notCollect

InitCollect ==
    /\ collector \in Collectors
    /\ collectPc = "loop"
    /\ collected = <<>>
    /\ seenIds = {}
    /\ madeFrom = <<>>
    /\ stall = 0
    /\ doc_height = 0
    /\ scroll_attempts = 0
    /\ moment = 1
    /\ collectResult = <<>>

\* no collection under way
CollectIdle ==
    /\ collector = "scrape_user_timeline"
    /\ collectPc = "done"
    /\ collected = <<>>
    /\ seenIds = {}
    /\ madeFrom = <<>>
    /\ stall = 0
    /\ doc_height = 0
    /\ scroll_attempts = 0
    /\ moment = 1
    /\ collectResult = <<>>

NextCollect == timeline_pass \/ search_pass \/ collect_return \/ collect_error

(***************************************************************************)
(* The specifications, one per component.                                  *)
(***************************************************************************)
\* a freshly constructed system with nothing configured
InitIdle ==
    /\ InitRateLimiter
    /\ InitDb
    /\ InitRun

\* no API call under way
ApiIdle ==
    /\ client = FALSE
    /\ method = "search_recent_tweets"
    /\ apiPc = "idle"
    /\ remaining = 0
    /\ tweets_data = <<>>
    /\ apiReturned = <<>>
    /\ apiFailed = FALSE
    /\ pagesDone = 0
    /\ requests = 0
    /\ batches = <<>>
    /\ page_sizes = <<>>

NoCollectors == api_client = FALSE /\ selenium_scraper = FALSE

InitOfRateLimiter == InitIdle /\ NoCollectors /\ ApiIdle /\ MirrorIdle /\ InitMonitor /\ TimelineIdle /\ QueryIdle /\ AnalyzerIdle /\ ParserIdle /\ SessionIdle /\ CycleIdle /\ TrendIdle /\ ExtractIdle /\ CollectIdle
SpecRateLimiter == InitOfRateLimiter /\ [][NextRateLimiter]_vars

InitOfStore == InitIdle /\ NoCollectors /\ ApiIdle /\ MirrorIdle /\ InitMonitor /\ TimelineIdle /\ QueryIdle /\ AnalyzerIdle /\ ParserIdle /\ SessionIdle /\ CycleIdle /\ TrendIdle /\ ExtractIdle /\ CollectIdle
SpecStore == InitOfStore /\ [][NextStore]_vars

InitOfApi == InitIdle /\ NoCollectors /\ InitApi /\ MirrorIdle /\ InitMonitor /\ TimelineIdle /\ QueryIdle /\ AnalyzerIdle /\ ParserIdle /\ SessionIdle /\ CycleIdle /\ TrendIdle /\ ExtractIdle /\ CollectIdle
SpecApi == InitOfApi /\ [][NextApi]_vars

\* a method that has been entered runs on: every request to the collaborator
\* returns or raises, and the loop takes its next step
SpecApiFair ==
    /\ InitOfApi
    /\ [][NextApi]_vars
    /\ WF_vars(api_lookup)
    /\ WF_vars(api_page)
    /\ WF_vars(api_done)

InitOfMirror == InitIdle /\ NoCollectors /\ ApiIdle /\ InitMirror /\ InitMonitor /\ TimelineIdle /\ QueryIdle /\ AnalyzerIdle /\ ParserIdle /\ SessionIdle /\ CycleIdle /\ TrendIdle /\ ExtractIdle /\ CollectIdle
SpecMirror == InitOfMirror /\ [][NextMirrorRun]_vars

InitOfMonitor == InitIdle /\ NoCollectors /\ ApiIdle /\ MirrorIdle /\ InitMonitor /\ TimelineIdle /\ QueryIdle /\ AnalyzerIdle /\ ParserIdle /\ SessionIdle /\ CycleIdle /\ TrendIdle /\ ExtractIdle /\ CollectIdle
SpecMonitor == InitOfMonitor /\ [][NextMonitor]_vars

InitOfTimeline == InitIdle /\ NoCollectors /\ ApiIdle /\ MirrorIdle /\ InitMonitor /\ InitTimeline /\ QueryIdle /\ AnalyzerIdle /\ ParserIdle /\ SessionIdle /\ CycleIdle /\ TrendIdle /\ ExtractIdle /\ CollectIdle
SpecTimeline == InitOfTimeline /\ [][NextTimeline]_vars

InitOfQuery == InitIdle /\ NoCollectors /\ ApiIdle /\ MirrorIdle /\ InitMonitor /\ TimelineIdle /\ InitQuery /\ AnalyzerIdle /\ ParserIdle /\ SessionIdle /\ CycleIdle /\ TrendIdle /\ ExtractIdle /\ CollectIdle
SpecQuery == InitOfQuery /\ [][NextQuery]_vars

InitOfAnalyzer == InitIdle /\ NoCollectors /\ ApiIdle /\ MirrorIdle /\ InitMonitor /\ TimelineIdle /\ QueryIdle /\ InitAnalyzer /\ ParserIdle /\ SessionIdle /\ CycleIdle /\ TrendIdle /\ ExtractIdle /\ CollectIdle
SpecAnalyzer == InitOfAnalyzer /\ [][NextAnalyzer]_vars

InitOfParser == InitIdle /\ NoCollectors /\ ApiIdle /\ MirrorIdle /\ InitMonitor /\ TimelineIdle /\ QueryIdle /\ AnalyzerIdle /\ InitParser /\ SessionIdle /\ CycleIdle /\ TrendIdle /\ ExtractIdle /\ CollectIdle
SpecParser == InitOfParser /\ [][NextParser]_vars

InitOfSession == InitIdle /\ NoCollectors /\ ApiIdle /\ MirrorIdle /\ InitMonitor /\ TimelineIdle /\ QueryIdle /\ AnalyzerIdle /\ ParserIdle /\ InitSession /\ CycleIdle /\ TrendIdle /\ ExtractIdle /\ CollectIdle
SpecSession == InitOfSession /\ [][NextSession]_vars

InitOfCycle == InitIdle /\ NoCollectors /\ ApiIdle /\ MirrorIdle /\ InitMonitor /\ TimelineIdle /\ QueryIdle /\ AnalyzerIdle /\ ParserIdle /\ SessionIdle /\ InitCycle /\ TrendIdle /\ ExtractIdle /\ CollectIdle
SpecCycle == InitOfCycle /\ [][NextCycle]_vars

InitOfTrend == InitIdle /\ NoCollectors /\ ApiIdle /\ MirrorIdle /\ InitMonitor /\ TimelineIdle /\ QueryIdle /\ AnalyzerIdle /\ ParserIdle /\ SessionIdle /\ CycleIdle /\ InitTrend /\ ExtractIdle /\ CollectIdle
SpecTrend == InitOfTrend /\ [][NextTrend]_vars

InitOfExtract == InitIdle /\ NoCollectors /\ ApiIdle /\ MirrorIdle /\ InitMonitor /\ TimelineIdle /\ QueryIdle /\ AnalyzerIdle /\ ParserIdle /\ SessionIdle /\ CycleIdle /\ TrendIdle /\ InitExtract /\ CollectIdle
SpecExtract == InitOfExtract /\ [][NextExtract]_vars

InitOfCollect == InitIdle /\ NoCollectors /\ ApiIdle /\ MirrorIdle /\ InitMonitor /\ TimelineIdle /\ QueryIdle /\ AnalyzerIdle /\ ParserIdle /\ SessionIdle /\ CycleIdle /\ TrendIdle /\ ExtractIdle /\ InitCollect
SpecCollect == InitOfCollect /\ [][NextCollect]_vars
\* the loop is sequential code: a pass that can be taken is taken
SpecCollectFair == InitOfCollect /\ [][NextCollect]_vars /\ WF_vars(NextCollect)

\* the store as earlier collections, made at time 0, may have left it
PriorStore ==
    /\ lastSaved \in [Ids -> {NoTweet} \cup
                              {MakeTweet(r, 0, "api") : r \in RawRecords}]
    /\ \A i \in Ids : lastSaved[i] # NoTweet => lastSaved[i].tweet_id = i
    /\ tweets_table = {RowOf(lastSaved[i]) : i \in {j \in Ids : lastSaved[j] # NoTweet}}
    /\ committed = tweets_table
    /\ firstScraped = [i \in Ids |-> IF lastSaved[i] = NoTweet THEN Never ELSE 0]

InitOrchestrator ==
    /\ clock = 1
    /\ calls = <<>>
    /\ returns = <<>>
    /\ slept = <<>>
    /\ PriorStore
    /\ InitRun
    /\ InitConfig
    /\ ApiIdle
    /\ MirrorIdle
    /\ InitMonitor
    /\ TimelineIdle
    /\ QueryIdle
    /\ AnalyzerIdle
    /\ ParserIdle
    /\ SessionIdle
    /\ CycleIdle
    /\ TrendIdle
    /\ ExtractIdle
    /\ CollectIdle

SpecOrchestrator == InitOrchestrator /\ [][NextOrchestrator]_vars

(***************************************************************************)
(* C1: no sliding interval of length time_window holds more than max_calls *)
(* calls, a call being timed when wait_if_needed returns: any max_calls+1  *)
(* consecutive returns span at least time_window seconds.                  *)
(***************************************************************************)
C1_SlidingWindowRespected ==
    \A i \in 1..Len(returns) : \A j \in 1..Len(returns) :
        j = i + max_calls => returns[j] - returns[i] >= time_window

(***************************************************************************)
(* C5: the tweets table holds at most one row per tweet_id, and that row   *)
(* is the row of the Tweet saved last with that id, field for field.       *)
(***************************************************************************)
C5_LastWriterWins ==
    \A id \in Ids :
        /\ Cardinality(RowsOf(tweets_table, id)) <= 1
        /\ RowsOf(tweets_table, id) =
              IF lastSaved[id] = NoTweet THEN {} ELSE {RowOf(lastSaved[id])}

\* a Tweet was saved over an earlier, different one with the same id
C5_Witness ==
    \E id \in Ids :
        /\ firstScraped[id] # Never
        /\ firstScraped[id] < lastSaved[id].scraped_at
        /\ RowsOf(tweets_table, id) = {RowOf(lastSaved[id])}
        /\ \E other \in Ids : other # id /\ RowsOf(tweets_table, other) # {}

(***************************************************************************)
(* Collection calls that have returned.                                    *)
(***************************************************************************)
Returned(kind) == runPc = "idle" /\ runKind = kind

\* the call made Tweets with this id in two different collector invocations
TwiceCollected(id) ==
    /\ runFirst[id] # NoTweet
    /\ runFirst[id].scraped_at # runLast[id].scraped_at

(***************************************************************************)
(* C3: the batch of a search_keywords run holds each id at most once, and  *)
(* the Tweet it holds for an id is the first one the run made with that    *)
(* id; every id the run met is in the batch.                               *)
(***************************************************************************)
C3_FirstOccurrenceKept ==
    runKind = "search_keywords" =>
        /\ \A i \in 1..Len(all_tweets) : \A j \in 1..Len(all_tweets) :
              all_tweets[i].tweet_id = all_tweets[j].tweet_id => i = j
        /\ \A i \in 1..Len(all_tweets) :
              all_tweets[i] = runFirst[all_tweets[i].tweet_id]
        /\ \A id \in Ids :
              runFirst[id] # NoTweet =>
                 \E i \in 1..Len(all_tweets) : all_tweets[i].tweet_id = id
        /\ (runPc = "idle" => returned = all_tweets)

\* a search returned a batch from which a later, different record was dropped
C3_Witness ==
    /\ Returned("search_keywords")
    /\ \E id \in Ids :
          /\ TwiceCollected(id)
          /\ runFirst[id].likes # runLast[id].likes
          /\ \E i \in 1..Len(returned) : returned[i] = runFirst[id]

PersistedAgain(id) ==
    /\ runPc = "idle" /\ runKind # "none" /\ ~runSaveFailed
    /\ runFirst[id] # NoTweet
    /\ firstScraped[id] # Never
    /\ firstScraped[id] < runFirst[id].scraped_at

(***************************************************************************)
(* C6 as stated: the row then has the likes and the sentiment of the new   *)
(* record and the scraped_at written by the first collection.              *)
(***************************************************************************)
C6_ScrapedAtKept ==
    \A id \in Ids :
        PersistedAgain(id) =>
           \E r \in RowsOf(tweets_table, id) :
              /\ r.likes = lastSaved[id].likes
              /\ r.sentiment_label = lastSaved[id].sentiment_label
              /\ r.scraped_at = isoformat(firstScraped[id])

(***************************************************************************)
(* C6 as amended: the row then has the likes, the sentiment and also the   *)
(* scraped_at of the new record, which is later than the first             *)
(* collection's.                                                           *)
(***************************************************************************)
C6_ScrapedAtOverwritten ==
    \A id \in Ids :
        PersistedAgain(id) =>
           /\ lastSaved[id].scraped_at >= runFirst[id].scraped_at
           /\ \A r \in RowsOf(tweets_table, id) :
                 /\ r.likes = lastSaved[id].likes
                 /\ r.sentiment_score = lastSaved[id].sentiment_score
                 /\ r.sentiment_label = lastSaved[id].sentiment_label
                 /\ r.scraped_at = isoformat(lastSaved[id].scraped_at)
                 /\ r.scraped_at # isoformat(firstScraped[id])
           /\ RowsOf(tweets_table, id) # {}

\* an id persisted by an earlier collection was persisted again
C6_Witness ==
    \E id \in Ids :
        /\ PersistedAgain(id)
        /\ \E r \in RowsOf(tweets_table, id) :
              r.scraped_at = isoformat(runFirst[id].scraped_at)

(***************************************************************************)
(* C2: a call that caught an exception after it had fetched and processed  *)
(* one page or more returns the records accumulated from those pages.      *)
(***************************************************************************)
C2_PartialResultReturned ==
    (apiPc = "returned" /\ apiFailed /\ pagesDone >= 1) =>
        /\ apiReturned = tweets_data
        /\ apiReturned # <<>>

(***************************************************************************)
(* C7: in a mirror run where the first navigation on mirror 1 shows the    *)
(* rate-limit banner, mirror 1 is navigated to that one time only; and     *)
(* when mirror 2 then succeeds (no page of it shows the banner and a       *)
(* record is extracted from it), the run ends with a batch that holds      *)
(* records of mirror 2 only, without having turned to mirror 3.            *)
(***************************************************************************)
C7_FailoverToSecondMirror ==
    /\ 1 \in limitedFirst => navCount[1] = 1
    /\ (mirrorPc = "finished" /\ 1 \in limitedFirst /\ 2 \notin everLimited
          /\ 2 \in extractedOn)
       => /\ mirror_tweets # <<>>
          /\ \A i \in 1..Len(mirror_tweets) : mirror_tweets[i].mirror = 2
          /\ mirror = 2
          /\ navCount[3] = 0

\* a run that left mirror 1 at its first page and ended on a successful mirror 2
C7_Witness ==
    /\ mirrorPc = "finished"
    /\ 1 \in limitedFirst
    /\ 2 \notin everLimited
    /\ 2 \in extractedOn
    /\ navCount[2] >= NumTargets

(***************************************************************************)
(* C8: once stop_monitoring has cleared the flag of a running monitoring   *)
(* thread, that thread chooses no further target: no read of the flag      *)
(* before a per-target fetch finds monitoring enabled.                     *)
(***************************************************************************)
C8_NoFetchAfterStop == ~fetchAfterStop

(***************************************************************************)
(* C9: inside monitor_continuous a thread is about to call scrape_account  *)
(* or about to sleep until the next cycle only when its last step was a    *)
(* read of is_monitoring that found it set; after a read that found it     *)
(* cleared the thread is at neither.                                       *)
(***************************************************************************)
C9_FlagReadBeforeFetchAndSleep ==
    \A t \in Threads :
       /\ at[t] \in {"mc_call", "mc_sleep"} => lastStep[t] = "read_true"
       /\ lastStep[t] = "read_false" => at[t] \notin {"mc_call", "mc_sleep"}

\* the monitoring thread is about to fetch a later target of a cycle while
\* the flag, read as set, has been cleared by stop_monitoring
C9_Witness ==
    /\ at["worker"] = "mc_call"
    /\ acct["worker"] > 1
    /\ lastStep["worker"] = "read_true"
    /\ ~is_monitoring

(***************************************************************************)
(* C10: at no time are two threads inside a collection call (scrape_account*)
(* called by a monitoring cycle or by the caller) on the one orchestrator, *)
(* and so on its one store connection.                                     *)
(***************************************************************************)
C10_NoConcurrentCollection ==
    ~(at["main"] \in CollectionPcs /\ at["worker"] \in CollectionPcs)

C12_BlocksAtLimit ==
    [][(Len(returns') = Len(returns) + 1 /\ AtLimit(calls, clock))
         => /\ slept'[Len(slept')] > 0
            /\ returns'[Len(returns')] > clock]_vars

\* a call has found the window full with its oldest timestamp exactly
\* time_window old, and has slept the one second that is left
C12_Witness == \E i \in 1..Len(slept) : slept[i] = 1

(***************************************************************************)
(* C13: when every mirror of the list has reported the rate limit, the     *)
(* run has ended with a batch that holds the records extracted before:     *)
(* for every mirror from which a record was extracted, the batch holds a   *)
(* record of that mirror.                                                  *)
(***************************************************************************)
C13_ExhaustedKeepsRecords ==
    (mirrorPc = "finished" /\ everLimited = Mirrors)
       => \A m \in extractedOn :
             \E i \in 1..Len(mirror_tweets) : mirror_tweets[i].mirror = m

(***************************************************************************)
(* C14: a mirror run takes the mirrors in the order of the list, and it    *)
(* leaves a mirror that has served a target (a record was extracted from   *)
(* it) only after that mirror has reported the rate limit: until then the  *)
(* following targets are fetched from that mirror.                         *)
(***************************************************************************)
C14_StaysOnWorkingMirror ==
    /\ [](/\ \A m \in Mirrors : m > mirror => navCount[m] = 0
          /\ \A m \in Mirrors : m < mirror => navCount[m] > 0
          /\ \A m \in extractedOn : m < mirror => m \in everLimited)
    /\ [][mirror' = mirror \/ mirror' = mirror + 1]_vars

\* the run has left, for the next mirror, a mirror that served a target and
\* reported the rate limit on a following one
C14_Witness ==
    \E m \in extractedOn \cap everLimited :
       /\ m < mirror
       /\ navCount[m] >= 2
       /\ navCount[mirror] > 0

(***************************************************************************)
(* C15: what a finished mirror run tells its caller says whether no mirror *)
(* worked: it is the report of a run without tweets exactly when every     *)
(* mirror of the list reported the rate limit.                             *)
(***************************************************************************)
C15_ExhaustedIsTold ==
    mirrorPc = "finished" =>
       (Report(mirror_tweets).message = "No tweets collected" <=> everLimited = Mirrors)

(***************************************************************************)
(* C16: scrape_user_timeline returns fewer than max_tweets tweets, without *)
(* an error, only after max_no_content consecutive passes of which each    *)
(* added no new tweet and saw no growth of the document height.            *)
(***************************************************************************)
C16_StopsAfterThresholdOfStalls ==
    (scrollPc = "done" /\ ~scrollFailed /\ last_height > 0 /\ timeline_tweets < max_tweets)
       => stalledRun >= max_no_content

(***************************************************************************)
(* C17: get_trending_analysis(hours) counts exactly the stored posts whose *)
(* timestamp is at or after now - hours, the cutoff included.              *)
(***************************************************************************)
C17_CountsPostsSinceCutoff ==
    (queryPc = "answered" /\ query.name = "get_trending_analysis")
       => answer = Cardinality({r \in tweets_rows :
                                   Instant(r.timestamp) >= NowUtc - query.hours})

\* a stored post satisfies every filter that the call supplies
Satisfies(row, filters) ==
    /\ filters.username # <<>> => row.username = filters.username[1]
    /\ filters.since # <<>> => Instant(row.timestamp) >= Instant(filters.since[1])
    /\ filters.sentiment # <<>> => row.sentiment_label = filters.sentiment[1]
    /\ filters.min_engagement # <<>> =>
          row.likes + row.retweets >= filters.min_engagement[1]

(***************************************************************************)
(* C18: get_tweets(filters, limit) returns at most limit posts, each       *)
(* satisfying every supplied filter, in descending order of the time of    *)
(* creation, and they are the newest such posts of the store.              *)
(***************************************************************************)
C18_NewestMatchingInOrder ==
    (queryPc = "answered" /\ query.name = "get_tweets") =>
       LET matching == {r \in tweets_rows : Satisfies(r, query.filters)}
           got == {answer[i] : i \in DOMAIN answer}
       IN  /\ Len(answer) <= query.limit
           /\ got \subseteq matching
           /\ Cardinality(got) = Len(answer)
           /\ Len(answer) = query.limit \/ got = matching
           /\ \A i \in DOMAIN answer : \A j \in DOMAIN answer :
                 i < j => Instant(answer[i].timestamp) >= Instant(answer[j].timestamp)
           /\ \A r \in matching \ got : \A g \in got :
                 Instant(g.timestamp) >= Instant(r.timestamp)

Analyzed == analysis # NotAnalyzed

(***************************************************************************)
(* C19: for every text, with any numbers of lexicon words, phrases and     *)
(* emoji, the polarity that analyze returns lies in [-1, 1].               *)
(***************************************************************************)
C19_PolarityWithinUnitInterval ==
    Analyzed =>
       /\ analysis.polarity.den > 0
       /\ analysis.polarity.num <= analysis.polarity.den
       /\ analysis.polarity.num >= 0 - analysis.polarity.den

\* the signals and the emoji of the text add up to more than 1: the clamp has
\* acted
C19_Witness ==
    /\ Analyzed
    /\ RawPolarity(input_text).num > RawPolarity(input_text).den
    /\ analysis.polarity.num = analysis.polarity.den

\* the double p is greater than the double 0.15
Over015(p) == 20 * p.num > 3 * p.den \/ (20 * p.num = 3 * p.den /\ p.side = 1)
\* the double p is less than the double -0.15
UnderMinus015(p) ==
    20 * p.num < 0 - 3 * p.den \/ (20 * p.num = 0 - 3 * p.den /\ p.side = 0 - 1)

(***************************************************************************)
(* C20: the label that analyze returns is positive exactly when the        *)
(* returned polarity is greater than 0.15, negative exactly when it is     *)
(* less than -0.15, and neutral otherwise, also at 0.15 and -0.15; the     *)
(* polarity it is computed from is the clamped one, emoji included.        *)
(***************************************************************************)
C20_LabelByThresholds ==
    Analyzed =>
       /\ analysis.polarity = Clamp(RawPolarity(input_text))
       /\ analysis.label = "positive" <=> Over015(analysis.polarity)
       /\ analysis.label = "negative" <=> UnderMinus015(analysis.polarity)
       /\ analysis.label = "neutral" <=>
             (~Over015(analysis.polarity) /\ ~UnderMinus015(analysis.polarity))

\* a returned polarity that is the double 0.15, labelled neutral
C20_Witness ==
    /\ Analyzed
    /\ 20 * analysis.polarity.num = 3 * analysis.polarity.den
    /\ analysis.polarity.side = 0
    /\ analysis.label = "neutral"

\* the string without the characters that are no part of a number or a suffix
IsNotOther(c) == c # "x"
Stripped(text) == SelectSeq(text, IsNotOther)
\* the string is a number: digits with at most one ".", at least one digit
IsNumber(text) == IsFloat(text)
\* the string is a number followed by one of K, M, B
IsSuffixedNumber(text) ==
    /\ Len(text) >= 2
    /\ Upper(text[Len(text)]) \in Suffixes
    /\ IsNumber(SubSeq(text, 1, Len(text) - 1))
\* r is an integer nearest to n * mult / 10^k
IsRounded(r, n, mult, k) == 2 * (n * mult - r * Pow10(k)) <= Pow10(k) /\ 2 * (r * Pow10(k) - n * mult) <= Pow10(k)

(***************************************************************************)
(* C21: for a string <number><K|M|B> _parse_number returns the number      *)
(* times 10^3, 10^6 or 10^9, rounded; for a malformed or empty string it   *)
(* returns 0; the result is never negative.                                *)
(***************************************************************************)
C21_RoundedProductOrZero ==
    parsed # NotParsed =>
       LET text == Stripped(number_text)
           number == SubSeq(text, 1, Len(text) - 1)
       IN /\ parsed >= 0
          /\ IsSuffixedNumber(text) =>
                IsRounded(parsed, DigitsValue(number), multiplier(<<Upper(text[Len(text)])>>),
                          Decimals(number))
          /\ (~IsSuffixedNumber(text) /\ ~IsNumber(text)) => parsed = 0

\* the step asks the browser collector for the target
AsksBrowser == runPc \in {"scrape_selenium", "search_selenium"} /\ clock' = clock + 1
\* the most records asked of a collector for the target
RequestedMaximum == IF runKind = "scrape_account" THEN max_tweets ELSE max_per_keyword
\* the API was asked for the target
ApiWasAsked == api_client /\ (runKind = "scrape_account" => ~force_selenium)

(***************************************************************************)
(* C22: the browser collector is asked after the API collector only when   *)
(* the API handed over fewer records than the maximum asked for the target *)
(* (or there is no API client, or the browser is forced), and the records  *)
(* of the API stay in the batch, unchanged and ahead of the browser's.     *)
(***************************************************************************)
C22_BrowserOnlyTopsUp ==
    /\ [][(AsksBrowser /\ ApiWasAsked) => delivered < RequestedMaximum]_vars
    /\ [](Returned("scrape_account") =>
             \A i \in 1..Len(returned) : \A j \in 1..Len(returned) :
                 (returned[i].source = "api" /\ returned[j].source = "selenium") => i < j)

(***************************************************************************)
(* C23: on every exit path of a mirror run, an exception or an interrupt   *)
(* after the creation of the browser session included, the session has     *)
(* been quit when the run returns.                                         *)
(***************************************************************************)
C23_SessionReleasedOnExit ==
    sessionPc \in {"returned", "raised"} => driver # "open"

(***************************************************************************)
(* C24: a save_tweet of scrape_account that reports failure does not raise *)
(* (the call goes on and returns), leaves the durable rows as they were    *)
(* before that write, and the other records of the batch are written: when *)
(* the call returns, the durable row of every id is the row of the latest  *)
(* Tweet of the call that save_tweet reported saved, and where it reported *)
(* none saved, the row from before the call.                               *)
(***************************************************************************)
C24_FailedWriteLeavesStoreAsBefore ==
    [][(runKind = "scrape_account" /\ runPc = "scrape_selenium" /\ runPc' = "idle") =>
          \A id \in Ids :
              RowsOf(committed', id) =
                  IF runStored'[id] # NoTweet
                  THEN {RowOf(runStored'[id])}
                  ELSE RowsOf(committed, id)]_vars

\* what a collection call returns when a collector was asked and handed over
\* no record
FoundNothing == process_api_data(<<>>, clock)

(***************************************************************************)
(* C25: a collection call made with neither a browser session nor an API   *)
(* client returns an empty result, and what it hands its caller differs    *)
(* from what a call hands back that asked a collector and found nothing.   *)
(***************************************************************************)
C25_UnattemptedIsTold ==
    (runPc = "idle" /\ runKind # "none" /\ NoCollectors) =>
        /\ Len(returned) = 0
        /\ returned # FoundNothing

(***************************************************************************)
(* C26: between two consecutive cycles of one monitoring loop the loop     *)
(* sleeps exactly max(0, interval - cycle_time): the sleep is never        *)
(* negative, there is none when the cycle took at least interval, and the  *)
(* second cycle starts at least interval after the first.                  *)
(***************************************************************************)
C26_SleepsRestOfInterval ==
    \A i \in 1..Len(cycleStarts) :
        i + 1 <= Len(cycleStarts) =>
            /\ cycleSleeps[i] = IF interval - cycleTimes[i] > 0
                                THEN interval - cycleTimes[i] ELSE 0
            /\ cycleSleeps[i] >= 0
            /\ (cycleTimes[i] >= interval => cycleSleeps[i] = 0)
            /\ cycleStarts[i + 1] - cycleStarts[i] >= interval

\* three cycles: the first shorter than the interval and followed by a sleep,
\* the second at least as long as the interval and followed by none
C26_Witness ==
    /\ Len(cycleStarts) = 3
    /\ interval > 0
    /\ cycleTimes[1] < interval
    /\ cycleSleeps[1] = interval - cycleTimes[1]
    /\ cycleTimes[2] >= interval
    /\ cycleSleeps[2] = 0
    /\ cycleStarts[3] = cycleStarts[2] + cycleTimes[2]

RECURSIVE SumTo(_, _)
\* the sum of the first k entries of a sequence of numbers
SumTo(sq, k) == IF k = 0 THEN 0 ELSE sq[k] + SumTo(sq, k - 1)

\* max_results of the latest call: what is left of it and what the pages took
Requested == remaining + SumTo(page_sizes, Len(page_sizes))

\* no page of the call held more records than its request asked for
WithinBatch == \A k \in 1..Len(page_sizes) : page_sizes[k] <= batches[k]

(***************************************************************************)
(* C27: a fetch with max_results = n asks every page for min(remaining,    *)
(* PageCap) records, remaining being n less the records of the pages       *)
(* before; it sends at most n page requests and, once past the entry,      *)
(* always returns, whatever the collaborator hands over; and it returns at *)
(* most n records when no page held more than was asked for.               *)
(***************************************************************************)
C27_PagedFetchBounded ==
    /\ [](\A k \in 1..Len(batches) :
            LET left == Requested - SumTo(page_sizes, k - 1)
            IN batches[k] = IF left < PageCap THEN left ELSE PageCap)
    /\ [](Len(batches) <= Requested)
    /\ []((apiPc = "returned" /\ WithinBatch) => Len(apiReturned) <= Requested)
    /\ ((apiPc \in {"lookup", "page"}) ~> (apiPc = "returned"))

\* a call for more than one page: a first page of PageCap records and a next
\* token, then a request for the rest, and all n records returned
C27_Witness ==
    /\ apiPc = "returned"
    /\ Len(batches) = 2
    /\ batches[1] = PageCap
    /\ page_sizes[1] = PageCap
    /\ batches[2] = Requested - PageCap
    /\ batches[2] < PageCap
    /\ WithinBatch
    /\ Len(apiReturned) = Requested

(***************************************************************************)
(* C28: every request that search_recent_tweets and get_user_tweets send   *)
(* to the API collaborator, the user lookup and every page request, comes  *)
(* after a wait_if_needed of its own: at every point the requests sent are *)
(* no more than the wait_if_needed calls that have returned.               *)
(***************************************************************************)
C28_RequestsWithinAcquires == requests <= Len(returns)

(***************************************************************************)
(* C29: the timestamp that wait_if_needed records is taken after the wait: *)
(* when the latest call had to sleep, the timestamp it appended to         *)
(* self.calls is not earlier than the time at which its sleep ended and it *)
(* returned.                                                               *)
(***************************************************************************)
C29_RecordedAfterWait ==
    (Len(slept) > 0 /\ slept[Len(slept)] > 0) =>
        calls[Len(calls)] >= returns[Len(returns)]

\* the phrase starts at the i-th token of the text
OccursAt(phrase, text, i) ==
    /\ i + Len(phrase) - 1 <= Len(text)
    /\ IF Len(phrase) = 1
       THEN Contains(text[i], phrase[1])
       ELSE \A j \in 1..Len(phrase) : text[i + j - 1] = phrase[j]

\* the occurrences in the text of the phrases of a list, each one counted
Occurrences(phrases, text) ==
    Cardinality({<<phrase, i>> \in phrases \X (1..Len(text)) : OccursAt(phrase, text, i)})

\* the words of a lexicon that the text holds, a repeated word counted once
DistinctWords(lexicon, text) ==
    Cardinality({word \in lexicon : \E i \in 1..Len(text) : text[i] = word})

(***************************************************************************)
(* C30: in the signals that analyze returns, a lexicon word adds 1 however *)
(* often it appears in the text, and a fixed phrase that occurs k times in *)
(* the text adds k.                                                        *)
(***************************************************************************)
C30_PhrasesCountedPerOccurrence ==
    Analyzed =>
        /\ analysis.positive_signals =
              DistinctWords(crypto_positive, input_text) +
              Occurrences(market_indicators.positive, input_text)
        /\ analysis.negative_signals =
              DistinctWords(crypto_negative, input_text) +
              Occurrences(market_indicators.negative, input_text)

\* the engagement of the rows of the scan that count for an account, and for
\* a hashtag, summed
AccountTotal(user) ==
    SumTo([i \in 1..Len(scan) |->
              IF scan[i].username = user THEN scan[i].engagement ELSE 0], Len(scan))
TagTotal(tag) ==
    SumTo([i \in 1..Len(scan) |->
              IF \E p \in 1..Len(scan[i].hashtags) : scan[i].hashtags[p] = tag
              THEN scan[i].engagement ELSE 0], Len(scan))

\* where the scan first meets an account, and a hashtag: the row, and within
\* the row the place in its list
ScanUsers == {scan[i].username : i \in 1..Len(scan)}
ScanTags == {scan[i].hashtags[p] : <<i, p>> \in
                {<<j, q>> \in (1..Len(scan)) \X (1..2) : q <= Len(scan[j].hashtags)}}
AccountMet(user) ==
    CHOOSE i \in 1..Len(scan) :
        /\ scan[i].username = user
        /\ \A j \in 1..(i - 1) : scan[j].username # user
TagMet(tag) ==
    LET places == {<<j, q>> \in (1..Len(scan)) \X (1..2) :
                      q <= Len(scan[j].hashtags) /\ scan[j].hashtags[q] = tag}
        first == CHOOSE pl \in places :
                    \A other \in places : pl[1] * 10 + pl[2] <= other[1] * 10 + other[2]
    IN first[1] * 10 + first[2]

\* list holds the `most` first of keys, by total descending and, among equal
\* totals, in the order in which the scan met them
IsTopList(list, keys, Total(_), Met(_), most) ==
    /\ Len(list) <= most
    /\ \A i \in 1..Len(list) :
          /\ list[i].key \in keys
          /\ list[i].engagement = Total(list[i].key)
    /\ \A i \in 1..Len(list) : \A j \in 1..Len(list) :
          i < j =>
             \/ list[i].engagement > list[j].engagement
             \/ /\ list[i].engagement = list[j].engagement
                /\ Met(list[i].key) < Met(list[j].key)
    /\ \A key \in keys :
          (\A i \in 1..Len(list) : list[i].key # key) =>
             /\ Len(list) = most
             /\ \/ Total(key) < list[most].engagement
                \/ /\ Total(key) = list[most].engagement
                   /\ Met(key) > Met(list[most].key)

(***************************************************************************)
(* C31: get_trending_analysis returns at most TopHashtags hashtags and at  *)
(* most TopAccounts accounts, each list by summed engagement descending    *)
(* with entries of equal engagement in the order in which the scan first   *)
(* met them: the lists are the first entries of that order, so the rows    *)
(* and their scan order fix them.                                          *)
(***************************************************************************)
C31_TopListsStable ==
    trendPc = "answered" =>
        /\ IsTopList(trending.top_hashtags, ScanTags, TagTotal, TagMet, TopHashtags)
        /\ IsTopList(trending.top_accounts, ScanUsers, AccountTotal, AccountMet, TopAccounts)

\* three accounts of equal engagement and three hashtags, two of them of
\* equal engagement: both lists are cut, and ties stand in scan order
C31_Witness ==
    /\ trendPc = "answered"
    /\ Cardinality(ScanUsers) = 3
    /\ Cardinality(ScanTags) = 3
    /\ Len(trending.top_accounts) = TopAccounts
    /\ Len(trending.top_hashtags) = TopHashtags
    /\ trending.top_accounts[1].engagement = trending.top_accounts[2].engagement
    /\ trending.top_accounts[1].key = scan[1].username
    /\ trending.top_hashtags[1].engagement = trending.top_hashtags[2].engagement

(***************************************************************************)
(* C32: a post element that lacks its text, its time or its engagement is  *)
(* not skipped and does not abort the extraction: every element read gives *)
(* a record, which holds what the element holds and the default for what   *)
(* it lacks.                                                               *)
(***************************************************************************)
C32_MissingFieldDefaulted ==
    \A p \in 1..Len(emitted) :
        /\ emitted[p] # <<>>
        /\ emitted[p][1].text = OrDefault(elements[p].text, DefaultText)
        /\ emitted[p][1].timestamp = OrDefault(elements[p].time, DefaultTimestamp)
        /\ emitted[p][1].likes = OrDefault(elements[p].stats, DefaultLikes)

(***************************************************************************)
(* C33: whatever the page renders and however often it is scrolled,        *)
(* scrape_user_timeline and search_tweets hold and return at most          *)
(* max_tweets records, no two with the same id, and between the passes of  *)
(* the loop seen_ids is the set of the ids of the records held.            *)
(***************************************************************************)
IdsOf(list) == {list[i].id : i \in 1..Len(list)}

DistinctIds(list) == \A i, j \in 1..Len(list) : list[i].id = list[j].id => i = j

C33_BoundedDistinct ==
    /\ Len(collected) <= max_tweets
    /\ DistinctIds(collected)
    /\ seenIds = IdsOf(collected)
    /\ collectResult # <<>> =>
          Len(collectResult[1]) <= max_tweets /\ DistinctIds(collectResult[1])

\* max_tweets records were returned after several passes, of which one met
\* an article again
C33_Witness ==
    /\ collectResult # <<>>
    /\ Len(collectResult[1]) = max_tweets
    /\ moment >= 3

(***************************************************************************)
(* C34: an article extracted again in a later pass of the same call gets   *)
(* the id it got before and is held once, also when it has no time         *)
(* sub-element: no two records of the call are made from one article.      *)
(***************************************************************************)
C34_ExtractedOnce ==
    \A i, j \in 1..Len(madeFrom) : madeFrom[i] = madeFrom[j] => i = j

(***************************************************************************)
(* C40: scrape_user_timeline ends whatever the page does: every pass adds  *)
(* a record or raises the stall counter; search_tweets ends after at most  *)
(* max_scrolls scrolls.                                                    *)
(***************************************************************************)
C40_Terminates ==
    /\ [][timeline_pass => (Len(collected') > Len(collected) \/ stall' > stall)]_vars
    /\ [](scroll_attempts <= max_scrolls)
    /\ <>(collectPc = "done")

\* a timeline call that held a record, stalled and returned
C40_Witness ==
    /\ collector = "scrape_user_timeline"
    /\ collectResult # <<>>
    /\ Len(collectResult[1]) = 1
    /\ stall >= max_no_content

(***************************************************************************)
(* C35: scrape_account returns at most max_tweets records, also when the   *)
(* API handed over some but fewer than max_tweets and the browser          *)
(* collector was asked to top up.                                          *)
(***************************************************************************)
C35_ReturnsAtMostMax ==
    Returned("scrape_account") => Len(returned) <= max_tweets

(***************************************************************************)
(* C36: the batch of a finished mirror run holds, for each target, records *)
(* of at most one mirror, also when the run went on to another mirror      *)
(* after targets had been collected: a target collected on an earlier      *)
(* mirror is not collected and added again on the next.                    *)
(***************************************************************************)
C36_OneMirrorPerTarget ==
    mirrorPc = "finished" =>
       \A i, j \in 1..Len(mirror_tweets) :
          (/\ mirror_tweets[i].phase = mirror_tweets[j].phase
           /\ mirror_tweets[i].target = mirror_tweets[j].target)
             => mirror_tweets[i].mirror = mirror_tweets[j].mirror

(***************************************************************************)
(* C37: cleanup closes the browser session and the store connection only   *)
(* after the monitoring worker has stopped: once cleanup has closed them,  *)
(* the worker is not inside a fetch or a store write.                      *)
(***************************************************************************)
C37_ClosedAfterWorkerStopped ==
    at["main"] = "closed" => at["worker"] \notin CollectionPcs

\* generate_intelligence_report has returned
Reported == queryPc = "answered" /\ query.name = "generate_intelligence_report"

(***************************************************************************)
(* C38: in one report the total post count is the number of the posts from *)
(* which the unique accounts, the total engagement and the alerts are      *)
(* computed, both being the stored posts of the window, and the sentiment  *)
(* counts of the labels sum to that total.                                 *)
(***************************************************************************)
C38_OneSetOfPosts ==
    Reported =>
       /\ answer.total_tweets_analyzed = Len(answer.analyzed)
       /\ answer.sentiment_analysis["positive"] + answer.sentiment_analysis["neutral"]
             = answer.total_tweets_analyzed

\* the last wait_if_needed call had to sleep
LastCallBlocked == slept # <<>> /\ slept[Len(slept)] > 0

(***************************************************************************)
(* C39: after every wait_if_needed call the deque of the RateLimiter holds *)
(* at most max_calls timestamps, in non-decreasing order, and right after  *)
(* a call that had to sleep it holds exactly one (the window was cleared). *)
(***************************************************************************)
C39_WindowBounded ==
    /\ Len(calls) <= max_calls
    /\ \A i, j \in 1..Len(calls) : i < j => calls[i] <= calls[j]
    /\ LastCallBlocked => Len(calls) = 1

\* a call slept on a full window and left one timestamp, and a later call
\* slept again
C39_Witness ==
    /\ LastCallBlocked
    /\ Len(calls) = 1
    /\ \E i \in 1..(Len(slept) - 1) : slept[i] > 0

====
